---- MODULE Spec2Model ----
(***************************************************************************)
(* Verification model of the journal style analyzer                       *)
(* (src/src/analyzer/journal_style_analyzer.py): section segmentation,    *)
(* paragraph chunking, chunk merging, citation-style detection and the    *)
(* corpus run.  Each component has its own specification; the variables   *)
(* of the other components stay at their idle values.                     *)
(***************************************************************************)
EXTENDS Integers, Sequences, FiniteSets, TLC

VARIABLES
    ck_text,      \* chunker: the text handed to the splitter (sequence of characters)
    ck_max,       \* chunker: max_chars
    ck_chunks,    \* chunker: the returned list of chunks
    ck_pc         \* chunker: "input", "chunked" (_chunk_text_by_paragraphs), "split" (analyze_text)

VARIABLES
    mg_docs,      \* merge: names of the tagged chunks of one section, in order
    mg_results,   \* merge: section_results, the chunk FeatureSets
    mg_merged,    \* merge: _merge_section_results(section_results)
    mg_alt,       \* merge: the merge of the same results reordered, or merged in two steps
    mg_order,     \* merge: the reordering, or <<k>> for the split point of the two-step merge
    mg_pc         \* merge: "input", "analyzed", "merged", "reordered", "nested"

ck_vars == <<ck_text, ck_max, ck_chunks, ck_pc>>

mg_vars == <<mg_docs, mg_results, mg_merged, mg_alt, mg_order, mg_pc>>

\* analyze_citation_style: the file's suffix and lines, and the returned CitationStyle
VARIABLES cs_suffix, cs_lines, cs_style, cs_pc

cs_vars == <<cs_suffix, cs_lines, cs_style, cs_pc>>

\* extract_sections: the lines of the text and the returned sections
VARIABLES sc_lines, sc_sections, sc_pc

sc_vars == <<sc_lines, sc_sections, sc_pc>>

\* extract_text_from_pdf: the file's suffix and lines, and what the call gave
VARIABLES pd_suffix, pd_lines, pd_out, pd_pc

pd_vars == <<pd_suffix, pd_lines, pd_out, pd_pc>>

\* analyze_papers: paper_paths, the order in which HEDGING_TERMS is visited, the
\* index of the paper at hand, its sections, what analyze_text returned for each
\* section so far, the counters of the loop, the number of tagger errors printed, the
\* returned report, and "loop", "sections", "done", "raised"
VARIABLES cp_papers, cp_order, cp_i, cp_sections, cp_analyses, cp_acc, cp_errors, cp_report,
    cp_pc

cp_vars ==
    <<cp_papers, cp_order, cp_i, cp_sections, cp_analyses, cp_acc, cp_errors, cp_report, cp_pc>>

\* analyze_text: the text, its chunks, the loop positions, the sub-chunks of a retry,
\* the merged result, and the calls of self.nlp made so far
VARIABLES tx_text, tx_chunks, tx_i, tx_smaller, tx_j, tx_merged, tx_calls, tx_pc

tx_vars == <<tx_text, tx_chunks, tx_i, tx_smaller, tx_j, tx_merged, tx_calls, tx_pc>>

\* _merge_citation_styles: the styles of the documents and the merged style
VARIABLES st_styles, st_merged, st_pc

st_vars == <<st_styles, st_merged, st_pc>>

\* check_data_consistency: the sections, the mode, and what it returns
VARIABLES dc_sections, dc_strict, dc_issues, dc_stats, dc_pc

dc_vars == <<dc_sections, dc_strict, dc_issues, dc_stats, dc_pc>>

vars == <<ck_vars, mg_vars, cs_vars, sc_vars, pd_vars, cp_vars, tx_vars, st_vars, dc_vars>>

\* every component but the one named rests: its variables hold their idle values
OthersIdle(component) ==
    /\ IF component = "chunk" THEN TRUE
       ELSE ck_text = <<>> /\ ck_max = 0 /\ ck_chunks = <<>> /\ ck_pc = "idle"
    /\ IF component = "merge" THEN TRUE
       ELSE mg_docs = <<>> /\ mg_results = <<>> /\ mg_merged = <<>> /\ mg_alt = <<>> /\ mg_order = <<>> /\ mg_pc = "idle"
    /\ IF component = "cite" THEN TRUE
       ELSE cs_suffix = "" /\ cs_lines = <<>> /\ cs_style = <<>> /\ cs_pc = "idle"
    /\ IF component = "sections" THEN TRUE
       ELSE sc_lines = <<>> /\ sc_sections = <<>> /\ sc_pc = "idle"
    /\ IF component = "pdf" THEN TRUE
       ELSE pd_suffix = "" /\ pd_lines = <<>> /\ pd_out = <<>> /\ pd_pc = "idle"
    /\ IF component = "corpus" THEN TRUE
       ELSE cp_papers = <<>> /\ cp_order = <<>> /\ cp_i = 0 /\ cp_sections = <<>>
            /\ cp_analyses = <<>> /\ cp_acc = <<>>
            /\ cp_errors = 0 /\ cp_report = <<>> /\ cp_pc = "idle"
    /\ IF component = "text" THEN TRUE
       ELSE tx_text = <<>> /\ tx_chunks = <<>> /\ tx_i = 0 /\ tx_smaller = <<>> /\ tx_j = 0
            /\ tx_merged = <<>> /\ tx_calls = <<>> /\ tx_pc = "idle"
    /\ IF component = "styles" THEN TRUE
       ELSE st_styles = <<>> /\ st_merged = <<>> /\ st_pc = "idle"
    /\ IF component = "consistency" THEN TRUE
       ELSE dc_sections = <<>> /\ dc_strict = FALSE /\ dc_issues = <<>> /\ dc_stats = <<>>
            /\ dc_pc = "idle"

(***************************************************************************)
(* Bounds of the model.                                                    *)
(***************************************************************************)
MaxTextLen == 7
MaxChars == 5
MaxChunks == 3

\* lines of a file handed to the citation analysis
MaxLines == 3

\* lines of a text handed to extract_sections
MaxSecLines == 4

\* lines of a file handed to extract_text_from_pdf
MaxPdfLines == 4

\* papers of a corpus handed to analyze_papers
MaxPapers == 2

\* lines of a text handed to analyze_text
MaxTextLines == 4

\* documents whose citation styles are merged
MaxStyles == 4

(***************************************************************************)
(* Characters and Python string helpers.                                   *)
(***************************************************************************)
NL == "\n"

\* the paragraph separator "\n\n"
ParaSep == <<NL, NL>>

\* characters of the chunker's input texts: two letters and the newline
ChunkAlphabet == {"a", "b", NL}

\* str.strip() removes these
IsSpace(c) == c \in {NL, " "}

RECURSIVE LStrip(_)
LStrip(s) == IF s # <<>> /\ IsSpace(Head(s)) THEN LStrip(Tail(s)) ELSE s

RECURSIVE RStrip(_)
RStrip(s) == IF s # <<>> /\ IsSpace(s[Len(s)]) THEN RStrip(SubSeq(s, 1, Len(s) - 1)) ELSE s

\* str.strip()
Strip(s) == RStrip(LStrip(s))

\* str.split("\n\n"): leftmost, non-overlapping separators; cur is the piece being read
RECURSIVE SplitFrom(_, _)
SplitFrom(s, cur) ==
    IF s = <<>> THEN <<cur>>
    ELSE IF Len(s) >= 2 /\ s[1] = NL /\ s[2] = NL
         THEN <<cur>> \o SplitFrom(SubSeq(s, 3, Len(s)), <<>>)
         ELSE SplitFrom(Tail(s), Append(cur, Head(s)))

SplitParagraphs(s) == SplitFrom(s, <<>>)

\* "\n\n".join(parts)
RECURSIVE JoinParagraphs(_)
JoinParagraphs(parts) ==
    IF parts = <<>> THEN <<>>
    ELSE IF Len(parts) = 1 THEN parts[1]
    ELSE parts[1] \o ParaSep \o JoinParagraphs(Tail(parts))

(***************************************************************************)
(* ChunkSplitter: _chunk_text_by_paragraphs and the identical loop inside  *)
(* analyze_text.                                                           *)
(***************************************************************************)
\* the closing "if current_chunk.strip(): chunks.append(current_chunk.strip())"
FlushChunk(chunks, current) ==
    IF Strip(current) # <<>> THEN Append(chunks, Strip(current)) ELSE chunks

\* the "for paragraph in paragraphs" loop and the final flush
RECURSIVE PackParagraphs(_, _, _, _)
PackParagraphs(paragraphs, max_chars, current, chunks) ==
    IF paragraphs = <<>> THEN FlushChunk(chunks, current)
    ELSE LET paragraph == Head(paragraphs) IN
         IF Len(current \o paragraph) < max_chars
         THEN PackParagraphs(Tail(paragraphs), max_chars,
                             current \o paragraph \o ParaSep, chunks)
         ELSE PackParagraphs(Tail(paragraphs), max_chars,
                             paragraph \o ParaSep, FlushChunk(chunks, current))

\* mutant: the size test looks at the paragraph alone, not at the running chunk
RECURSIVE PackParagraphsIgnoringCurrent(_, _, _, _)
PackParagraphsIgnoringCurrent(paragraphs, max_chars, current, chunks) ==
    IF paragraphs = <<>> THEN FlushChunk(chunks, current)
    ELSE LET paragraph == Head(paragraphs) IN
         IF Len(paragraph) < max_chars
         THEN PackParagraphsIgnoringCurrent(Tail(paragraphs), max_chars,
                             current \o paragraph \o ParaSep, chunks)
         ELSE PackParagraphsIgnoringCurrent(Tail(paragraphs), max_chars,
                             paragraph \o ParaSep, FlushChunk(chunks, current))

\* mutant: the chunk being closed is forgotten when a new one begins
RECURSIVE PackParagraphsNoClose(_, _, _, _)
PackParagraphsNoClose(paragraphs, max_chars, current, chunks) ==
    IF paragraphs = <<>> THEN FlushChunk(chunks, current)
    ELSE LET paragraph == Head(paragraphs) IN
         IF Len(current \o paragraph) < max_chars
         THEN PackParagraphsNoClose(Tail(paragraphs), max_chars,
                             current \o paragraph \o ParaSep, chunks)
         ELSE PackParagraphsNoClose(Tail(paragraphs), max_chars,
                             paragraph \o ParaSep, chunks)

ChunkIgnoringCurrent(text, max_chars) ==
    IF Len(text) <= max_chars THEN <<text>>
    ELSE PackParagraphsIgnoringCurrent(SplitParagraphs(text), max_chars, <<>>, <<>>)

ChunkNoClose(text, max_chars) ==
    IF Len(text) <= max_chars THEN <<text>>
    ELSE PackParagraphsNoClose(SplitParagraphs(text), max_chars, <<>>, <<>>)

_chunk_text_by_paragraphs(text, max_chars) ==
    IF Len(text) <= max_chars THEN <<text>>
    ELSE PackParagraphs(SplitParagraphs(text), max_chars, <<>>, <<>>)

\* the splitting at the head of analyze_text (max_chunk_size is a parameter here)
analyze_text_chunks(text, max_chunk_size) ==
    IF Len(text) > max_chunk_size
    THEN PackParagraphs(SplitParagraphs(text), max_chunk_size, <<>>, <<>>)
    ELSE <<text>>

\* all texts over the alphabet up to the length bound
TextsUpTo(n) == UNION {[1..k -> ChunkAlphabet] : k \in 0..n}

ChunkInit ==
    /\ OthersIdle("chunk")
    /\ ck_text \in TextsUpTo(MaxTextLen)
    /\ ck_max \in 1..MaxChars
    /\ ck_chunks = <<>>
    /\ ck_pc = "input"

ChunkCall ==
    /\ ck_pc = "input"
    /\ ck_chunks' = _chunk_text_by_paragraphs(ck_text, ck_max)
    /\ ck_pc' = "chunked"
    /\ UNCHANGED <<ck_text, ck_max, mg_vars, cs_vars, sc_vars, pd_vars, cp_vars, tx_vars, st_vars, dc_vars>>

AnalyzeTextSplit ==
    /\ ck_pc = "input"
    /\ ck_chunks' = analyze_text_chunks(ck_text, ck_max)
    /\ ck_pc' = "split"
    /\ UNCHANGED <<ck_text, ck_max, mg_vars, cs_vars, sc_vars, pd_vars, cp_vars, tx_vars, st_vars, dc_vars>>

(***************************************************************************)
(* Python float: IEEE-754 binary64, non-negative values only.  A float is  *)
(* [e, hi, lo]: the 53-bit significand is M = hi * 2^28 + lo with          *)
(* 2^24 <= hi < 2^25 and 0 <= lo < 2^28, and the value is M * 2^(e - 52);  *)
(* zero is [0, 0, 0].  Sums and quotients are formed on the significand    *)
(* extended by three bits (guard, round, sticky) held in two 28-bit limbs  *)
(* (H, L), and rounded to nearest, ties to even.                           *)
(***************************************************************************)
LimbBase == 2^28

HiBase == 2^25

DigitBase == 2^14

FZero == [e |-> 0, hi |-> 0, lo |-> 0]

IsFZero(x) == x.hi = 0 /\ x.lo = 0

\* number of binary digits of a positive integer below 2^30
BitLength(k) == CHOOSE b \in 1..30 : 2^(b - 1) <= k /\ k < 2^b

\* float(k) for an integer 0 <= k < 2^25 (exact)
FromInt(k) ==
    IF k = 0 THEN FZero
    ELSE [e |-> BitLength(k) - 1, hi |-> k * 2^(25 - BitLength(k)), lo |-> 0]

\* the significand times 8, as limbs (H, L)
Extend(x) == [H |-> x.hi * 8 + (x.lo \div 2^25), L |-> (x.lo % 2^25) * 8]

\* set the lowest bit when non-zero bits were shifted out
Jam(L, lost) == IF lost /\ L % 2 = 0 THEN L + 1 ELSE L

\* (H, L) shifted right by d bits, the bits shifted out jammed into the lowest bit
ShiftRightJam(X, d) ==
    IF d = 0 THEN X
    ELSE IF d < 28
         THEN [H |-> X.H \div 2^d,
               L |-> Jam((X.L \div 2^d) + (X.H % 2^d) * 2^(28 - d), X.L % 2^d # 0)]
    ELSE IF d < 56
         THEN [H |-> 0,
               L |-> Jam(X.H \div 2^(d - 28), X.L # 0 \/ X.H % 2^(d - 28) # 0)]
    ELSE [H |-> 0, L |-> Jam(0, X.H # 0 \/ X.L # 0)]

\* round the 56-bit (H, L) with 2^27 <= H < 2^28 to 53 bits, ties to even; the
\* value of (H, L) is (H * 2^28 + L) * 2^(e - 55)
RoundExtended(X, e) ==
    LET grs == X.L % 8
        lo  == (X.L \div 8) + (X.H % 8) * 2^25
        hi  == X.H \div 8
        up  == grs > 4 \/ (grs = 4 /\ lo % 2 = 1)
    IN  IF ~up THEN [e |-> e, hi |-> hi, lo |-> lo]
        ELSE IF lo + 1 < LimbBase THEN [e |-> e, hi |-> hi, lo |-> lo + 1]
        ELSE IF hi + 1 < HiBase THEN [e |-> e, hi |-> hi + 1, lo |-> 0]
        ELSE [e |-> e + 1, hi |-> HiBase \div 2, lo |-> 0]

\* x + y
FAdd(x, y) ==
    IF IsFZero(x) THEN y
    ELSE IF IsFZero(y) THEN x
    ELSE LET big   == IF x.e >= y.e THEN x ELSE y
             small == IF x.e >= y.e THEN y ELSE x
             A == Extend(big)
             B == ShiftRightJam(Extend(small), big.e - small.e)
             L == A.L + B.L
             H == A.H + B.H + (L \div LimbBase)
             S == [H |-> H, L |-> L % LimbBase]
         IN  IF H >= LimbBase
             THEN RoundExtended(ShiftRightJam(S, 1), big.e + 1)
             ELSE RoundExtended(S, big.e)

\* x / n for an integer 1 <= n < 2^10: the extended significand times
\* 2^BitLength(n), written in base 2^14 (digits d4..d0), is divided by n digit by
\* digit; the quotient has 56 or 57 bits and the remainder is jammed into it
FDivNat(x, n) ==
    IF IsFZero(x) THEN FZero
    ELSE LET X  == Extend(x)
             k  == 2^BitLength(n)
             p0 == (X.L % DigitBase) * k
             p1 == (X.L \div DigitBase) * k + (p0 \div DigitBase)
             p2 == (X.H % DigitBase) * k + (p1 \div DigitBase)
             p3 == (X.H \div DigitBase) * k + (p2 \div DigitBase)
             d0 == p0 % DigitBase
             d1 == p1 % DigitBase
             d2 == p2 % DigitBase
             d3 == p3 % DigitBase
             d4 == p3 \div DigitBase
             q4 == d4 \div n
             r4 == d4 % n
             q3 == (r4 * DigitBase + d3) \div n
             r3 == (r4 * DigitBase + d3) % n
             q2 == (r3 * DigitBase + d2) \div n
             r2 == (r3 * DigitBase + d2) % n
             q1 == (r2 * DigitBase + d1) \div n
             r1 == (r2 * DigitBase + d1) % n
             q0 == (r1 * DigitBase + d0) \div n
             r0 == (r1 * DigitBase + d0) % n
             Q  == [H |-> q4 * LimbBase + q3 * DigitBase + q2,
                    L |-> Jam(q1 * DigitBase + q0, r0 # 0)]
         IN  IF Q.H >= LimbBase
             THEN RoundExtended(ShiftRightJam(Q, 1), x.e - BitLength(n) + 1)
             ELSE RoundExtended(Q, x.e - BitLength(n))

\* k / n for non-negative integers (Python true division of ints)
FromRatio(k, n) == FDivNat(FromInt(k), n)

\* sum(values): starts from 0 and adds from left to right
RECURSIVE FSumFrom(_, _)
FSumFrom(acc, values) ==
    IF values = <<>> THEN acc ELSE FSumFrom(FAdd(acc, Head(values)), Tail(values))

FSum(values) == FSumFrom(FZero, values)

\* sum(values) / len(values)
FMean(values) == FDivNat(FSum(values), Len(values))

\* the next float above x (x > 0)
FSucc(x) ==
    IF x.lo + 1 < LimbBase THEN [e |-> x.e, hi |-> x.hi, lo |-> x.lo + 1]
    ELSE IF x.hi + 1 < HiBase THEN [e |-> x.e, hi |-> x.hi + 1, lo |-> 0]
    ELSE [e |-> x.e + 1, hi |-> HiBase \div 2, lo |-> 0]

RECURSIVE FSuccN(_, _)
FSuccN(x, k) == IF k = 0 THEN x ELSE FSuccN(FSucc(x), k - 1)

\* x <= y
FLeq(x, y) ==
    IF IsFZero(x) THEN TRUE
    ELSE IF IsFZero(y) THEN FALSE
    ELSE IF x.e # y.e THEN x.e < y.e
    ELSE IF x.hi # y.hi THEN x.hi < y.hi
    ELSE x.lo <= y.lo

(***************************************************************************)
(* Python dict / Counter: a sequence of [k, v] entries with distinct keys,  *)
(* in insertion order.                                                     *)
(***************************************************************************)
DictKeys(d) == {d[i].k : i \in 1..Len(d)}

\* d.get(key, default)
DictGet(d, key, default) ==
    IF key \in DictKeys(d) THEN (CHOOSE x \in {d[i] : i \in 1..Len(d)} : x.k = key).v
    ELSE default

\* a sequence given by a function over 1..n, with every element computed once
Elements(seq) == seq \o <<>>

\* the members of a set of indices, ascending
RECURSIVE IndexSeq(_)
IndexSeq(S) ==
    IF S = {} THEN <<>>
    ELSE LET least == CHOOSE i \in S : \A j \in S : i <= j
         IN  <<least>> \o IndexSeq(S \ {least})

\* mutant: a later count replaces the earlier one instead of being added to it
DictMergeOverwrite(d, upd) ==
    LET fresh == IndexSeq({i \in 1..Len(upd) : upd[i].k \notin DictKeys(d)})
    IN  [i \in 1..Len(d) |-> [k |-> d[i].k, v |-> DictGet(upd, d[i].k, d[i].v)]]
        \o [n \in 1..Len(fresh) |-> upd[fresh[n]]]

\* for word, freq in upd.items(): d[word] = d.get(word, 0) + freq
\* (also Counter.update(upd)): known keys keep their place, new keys are appended
DictMerge(d, upd) ==
    LET fresh == IndexSeq({i \in 1..Len(upd) : upd[i].k \notin DictKeys(d)})
    IN  [i \in 1..Len(d) |-> [k |-> d[i].k, v |-> d[i].v + DictGet(upd, d[i].k, 0)]]
        \o [n \in 1..Len(fresh) |-> upd[fresh[n]]]

\* Counter(words): the distinct words in order of first occurrence, with their counts
CounterOf(words) ==
    LET first == IndexSeq({i \in 1..Len(words) : \A j \in 1..(i - 1) : words[j] # words[i]})
    IN  Elements([n \in 1..Len(first) |->
            [k |-> words[first[n]],
             v |-> Cardinality({j \in 1..Len(words) : words[j] = words[first[n]]})]])

\* mutant: the first n items in insertion order
MostCommonFirst(d, n) == SubSeq(d, 1, IF Len(d) < n THEN Len(d) ELSE n)

\* Counter.most_common(n): by count, largest first, equal counts in insertion order
MostCommon(d, n) ==
    LET rank(i) == Cardinality({j \in 1..Len(d) : d[j].v > d[i].v})
                   + Cardinality({j \in 1..(i - 1) : d[j].v = d[i].v}) + 1
        size == IF Len(d) < n THEN Len(d) ELSE n
    IN  Elements([r \in 1..size |-> d[CHOOSE i \in 1..Len(d) : rank(i) = r]])

\* two dicts compare equal when they hold the same items, in any order
DictEq(d1, d2) == {d1[i] : i \in 1..Len(d1)} = {d2[i] : i \in 1..Len(d2)}

\* the elements of a sequence that satisfy a test, by index set
Pick(seq, S) == Elements([n \in 1..Cardinality(S) |-> seq[IndexSeq(S)[n]]])

RECURSIVE SumSeq(_)
SumSeq(ns) == IF ns = <<>> THEN 0 ELSE Head(ns) + SumSeq(Tail(ns))

(***************************************************************************)
(* The tagging collaborator (self.nlp): a tagged chunk is the token list   *)
(* with surface text, lemma, coarse tag and dependency label, the word     *)
(* counts of its sentences, and whether reading it raises.                 *)
(***************************************************************************)
Tok(text, lemma, pos, dep) == [text |-> text, lemma |-> lemma, pos |-> pos, dep |-> dep]

\* str.lower() on the words of the sample chunks
Lower(w) ==
    CASE w = "Cells" -> "cells"
      [] w = "The" -> "the"
      [] w = "Went" -> "went"
      [] w = "PH" -> "ph"
      [] w = "This" -> "this"
      [] w = "Growth" -> "growth"
      [] w = "Yields" -> "yields"
      [] w = "Results" -> "results"
      [] w = "Discussion" -> "discussion"
      [] OTHER -> w

\* part of NLTK's English stop-word list
stop_words == {"the", "was", "were", "being", "have", "doing", "very", "then", "here"}

\* twenty distinct nouns, to fill a chunk with more nouns than the chunk keeps
FillerNouns ==
    <<"cell", "gene", "leaf", "root", "stem", "seed", "soil", "water", "light", "plant",
      "enzyme", "protein", "tissue", "sample", "method", "model", "value", "field",
      "growth", "yield">>

\* "samples were dried quickly." : four words, five tokens, one passive subject
PassiveSentence ==
    <<Tok("samples", "sample", "NOUN", "nsubjpass"), Tok("were", "be", "AUX", "auxpass"),
      Tok("dried", "dry", "VERB", "ROOT"), Tok("quickly", "quickly", "ADV", "advmod"),
      Tok(".", ".", "PUNCT", "punct")>>

\* "Cells grew fast." : three words, four tokens
ActiveSentence ==
    <<Tok("Cells", "cell", "NOUN", "nsubj"), Tok("grew", "grow", "VERB", "ROOT"),
      Tok("fast", "fast", "ADV", "advmod"), Tok(".", ".", "PUNCT", "punct")>>

\* ten sentences, the first k of them passive
PassiveDoc(k) ==
    [tokens |-> [i \in 1..(5 * k + 4 * (10 - k)) |->
                    IF i <= 5 * k THEN PassiveSentence[((i - 1) % 5) + 1]
                    ELSE ActiveSentence[((i - 5 * k - 1) % 4) + 1]],
     sents  |-> [i \in 1..10 |-> IF i <= k THEN 4 ELSE 3],
     broken |-> FALSE]

DocNames == {"p1", "p2", "p3", "photo", "dense", "wide", "broken"}

SampleDoc(name) ==
    CASE name = "p1" -> PassiveDoc(1)
      [] name = "p2" -> PassiveDoc(2)
      [] name = "p3" -> PassiveDoc(3)
      [] name = "photo" ->
            [tokens |-> <<Tok("The", "the", "DET", "det"),
                          Tok("photosynthesis", "photosynthesis", "NOUN", "nsubj"),
                          Tok("Went", "go", "VERB", "ROOT"),
                          Tok("very", "very", "ADV", "advmod"),
                          Tok("quickly", "quickly", "ADV", "advmod"),
                          Tok("in", "in", "ADP", "prep"),
                          Tok("green", "green", "ADJ", "amod"),
                          Tok("Cells", "cell", "NOUN", "pobj"),
                          Tok(".", ".", "PUNCT", "punct"),
                          Tok("photosynthesis", "photosynthesis", "NOUN", "nsubj"),
                          Tok("was", "be", "AUX", "aux"),
                          Tok("doing", "do", "VERB", "ROOT"),
                          Tok("PH", "ph", "NOUN", "dobj"),
                          Tok("photosynthesis", "photosynthesis", "NOUN", "appos"),
                          Tok(".", ".", "PUNCT", "punct")>>,
             sents  |-> <<8, 5>>,
             broken |-> FALSE]
      [] name = "dense" ->
            [tokens |-> <<Tok("samples", "sample", "NOUN", "nsubjpass"),
                          Tok("were", "be", "AUX", "auxpass"),
                          Tok("dried", "dry", "VERB", "ROOT"),
                          Tok("leaves", "leaf", "NOUN", "nsubjpass"),
                          Tok("were", "be", "AUX", "auxpass"),
                          Tok("weighed", "weigh", "VERB", "conj"),
                          Tok(".", ".", "PUNCT", "punct")>>,
             sents  |-> <<6>>,
             broken |-> FALSE]
      [] name = "wide" ->
            [tokens |-> [i \in 1..40 |-> Tok(FillerNouns[((i - 1) % 20) + 1],
                                             FillerNouns[((i - 1) % 20) + 1], "NOUN", "nsubj")]
                        \o <<Tok("photosynthesis", "photosynthesis", "NOUN", "dobj")>>,
             sents  |-> <<14, 13, 14>>,
             broken |-> FALSE]
      [] OTHER ->
            [tokens |-> <<>>, sents |-> <<>>, broken |-> TRUE]

(***************************************************************************)
(* LinguisticFeatureExtractor: _analyze_chunk.                             *)
(***************************************************************************)
ChunkTopK == 20

\* token.text.lower() not in self.stop_words and len(token.text) > 2
KeepToken(t) == Lower(t.text) \notin stop_words /\ Len(t.text) > 2

\* [token.text.lower() for token in doc if token.pos_ == pos and ...]
SurfaceWords(doc, pos) ==
    LET keep == IndexSeq({i \in 1..Len(doc.tokens) :
                            doc.tokens[i].pos = pos /\ KeepToken(doc.tokens[i])})
    IN  Elements([n \in 1..Len(keep) |-> Lower(doc.tokens[keep[n]].text)])

\* [token.lemma_.lower() for token in doc if token.pos_ == "VERB" and ...]
LemmaWords(doc, pos) ==
    LET keep == IndexSeq({i \in 1..Len(doc.tokens) :
                            doc.tokens[i].pos = pos /\ KeepToken(doc.tokens[i])})
    IN  Elements([n \in 1..Len(keep) |-> Lower(doc.tokens[keep[n]].lemma)])

PassiveCount(doc) == Cardinality({i \in 1..Len(doc.tokens) : doc.tokens[i].dep = "nsubjpass"})

\* the result of the except branch of _analyze_chunk
EmptyFeatureSet ==
    [vocabulary |-> [nouns |-> <<>>, verbs |-> <<>>, adjectives |-> <<>>, adverbs |-> <<>>],
     sentence_structure |-> [avg_sentence_length |-> FZero, sentence_count |-> 0,
                             total_tokens |-> 0],
     stylistic_features |-> [passive_voice_ratio |-> FZero, token_count |-> 0]]

_analyze_chunk(doc) ==
    IF doc.broken THEN EmptyFeatureSet
    ELSE
    [vocabulary |->
        [nouns      |-> MostCommon(CounterOf(SurfaceWords(doc, "NOUN")), ChunkTopK),
         verbs      |-> MostCommon(CounterOf(LemmaWords(doc, "VERB")), ChunkTopK),
         adjectives |-> MostCommon(CounterOf(SurfaceWords(doc, "ADJ")), ChunkTopK),
         adverbs    |-> MostCommon(CounterOf(SurfaceWords(doc, "ADV")), ChunkTopK)],
     sentence_structure |->
        [avg_sentence_length |-> IF doc.sents # <<>>
                                 THEN FromRatio(SumSeq(doc.sents), Len(doc.sents))
                                 ELSE FZero,
         sentence_count |-> Len(doc.sents),
         total_tokens   |-> Len(doc.tokens)],
     stylistic_features |->
        [passive_voice_ratio |-> IF doc.sents # <<>>
                                 THEN FromRatio(PassiveCount(doc), Len(doc.sents))
                                 ELSE FZero,
         token_count |-> Len(doc.tokens)]]

(***************************************************************************)
(* ChunkAggregator: _merge_section_results.                                *)
(***************************************************************************)
Categories == {"nouns", "verbs", "adjectives", "adverbs"}

\* the vocabulary loop over the results, for one category
RECURSIVE MergeVocabulary(_, _, _)
MergeVocabulary(results, category, acc) ==
    IF results = <<>> THEN acc
    ELSE MergeVocabulary(Tail(results), category,
                         DictMerge(acc, Head(results).vocabulary[category]))

\* mutant: the vocabulary of a later chunk replaces the counts already merged
RECURSIVE MergeVocabularyOverwrite(_, _, _)
MergeVocabularyOverwrite(results, category, acc) ==
    IF results = <<>> THEN acc
    ELSE MergeVocabularyOverwrite(Tail(results), category,
                         DictMergeOverwrite(acc, Head(results).vocabulary[category]))

\* "if lengths: sum(lengths) / len(lengths)"; an empty list stays the empty list
MeanOrEmpty(values) == IF values # <<>> THEN FMean(values) ELSE <<>>

_merge_section_results_overwriting(results) ==
    [vocabulary |-> [c \in Categories |-> MergeVocabularyOverwrite(results, c, <<>>)],
     sentence_structure |->
        [avg_sentence_length |->
            MeanOrEmpty([i \in 1..Len(results) |->
                            results[i].sentence_structure.avg_sentence_length]),
         sentence_count |->
            SumSeq([i \in 1..Len(results) |-> results[i].sentence_structure.sentence_count]),
         total_tokens |->
            SumSeq([i \in 1..Len(results) |-> results[i].sentence_structure.total_tokens])],
     stylistic_features |->
        [passive_voice_ratio |->
            MeanOrEmpty([i \in 1..Len(results) |->
                            results[i].stylistic_features.passive_voice_ratio]),
         token_count |->
            SumSeq([i \in 1..Len(results) |-> results[i].stylistic_features.token_count])]]

_merge_section_results(results) ==
    [vocabulary |-> [c \in Categories |-> MergeVocabulary(results, c, <<>>)],
     sentence_structure |->
        [avg_sentence_length |->
            MeanOrEmpty([i \in 1..Len(results) |->
                            results[i].sentence_structure.avg_sentence_length]),
         sentence_count |->
            SumSeq([i \in 1..Len(results) |-> results[i].sentence_structure.sentence_count]),
         total_tokens |->
            SumSeq([i \in 1..Len(results) |-> results[i].sentence_structure.total_tokens])],
     stylistic_features |->
        [passive_voice_ratio |->
            MeanOrEmpty([i \in 1..Len(results) |->
                            results[i].stylistic_features.passive_voice_ratio]),
         token_count |->
            SumSeq([i \in 1..Len(results) |-> results[i].stylistic_features.token_count])]]

\* the chunks of one section handed to the merge
MergeDocNames == {"p1", "p2", "p3", "photo", "dense", "broken"}

MergeInit ==
    /\ OthersIdle("merge")
    /\ mg_docs \in UNION {[1..n -> MergeDocNames] : n \in 1..MaxChunks}
    /\ mg_results = <<>>
    /\ mg_merged = <<>>
    /\ mg_alt = <<>>
    /\ mg_order = <<>>
    /\ mg_pc = "input"

\* analyze_by_sections: chunk_result = self._analyze_chunk(doc, sec_name) for each chunk
AnalyzeChunks ==
    /\ mg_pc = "input"
    /\ mg_results' = [i \in 1..Len(mg_docs) |-> _analyze_chunk(SampleDoc(mg_docs[i]))]
    /\ mg_pc' = "analyzed"
    /\ UNCHANGED <<mg_docs, mg_merged, mg_alt, mg_order, ck_vars, cs_vars, sc_vars, pd_vars, cp_vars, tx_vars, st_vars, dc_vars>>

\* merged = self._merge_section_results(section_results)
MergeSection ==
    /\ mg_pc = "analyzed"
    /\ mg_merged' = _merge_section_results(mg_results)
    /\ mg_pc' = "merged"
    /\ UNCHANGED <<mg_docs, mg_results, mg_alt, mg_order, ck_vars, cs_vars, sc_vars, pd_vars, cp_vars, tx_vars, st_vars, dc_vars>>

Orderings(n) == {p \in [1..n -> 1..n] : \A i, j \in 1..n : p[i] = p[j] => i = j}

\* the same results handed to the merge in another order
MergeReordered ==
    /\ mg_pc = "merged"
    /\ \E p \in Orderings(Len(mg_results)) :
         /\ mg_order' = p
         /\ mg_alt' = _merge_section_results([i \in 1..Len(mg_results) |-> mg_results[p[i]]])
    /\ mg_pc' = "reordered"
    /\ UNCHANGED <<mg_docs, mg_results, mg_merged, ck_vars, cs_vars, sc_vars, pd_vars, cp_vars, tx_vars, st_vars, dc_vars>>

\* the first k results merged, and that merged result merged with the others
MergeNested ==
    /\ mg_pc = "merged"
    /\ \E k \in 1..Len(mg_results) :
         /\ mg_order' = <<k>>
         /\ mg_alt' = _merge_section_results(
                         <<_merge_section_results(SubSeq(mg_results, 1, k))>>
                         \o SubSeq(mg_results, k + 1, Len(mg_results)))
    /\ mg_pc' = "nested"
    /\ UNCHANGED <<mg_docs, mg_results, mg_merged, ck_vars, cs_vars, sc_vars, pd_vars, cp_vars, tx_vars, st_vars, dc_vars>>

(***************************************************************************)
(* CitationStyleDetector: analyze_citation_style, extract_references_section *)
(* and _determine_reference_format.  A file is a sequence of lines taken     *)
(* from the sample lines below; what each regular expression finds in a      *)
(* sample line is tabulated per line.  No expression matches across the      *)
(* line break of two sample lines.                                           *)
(***************************************************************************)
LineTenNumbered == "Yields rose [1], [2], [3], [4], [5], [6], [7], [8], [9], [12]."
LineTwoAuthorYear == "Yields rose (Smith, 2020) and fell (Jones, 2019)."
LineRanges == "Rates vary [1,2] and [3-5] and [1,4-6] and [1,2,4-6]."
LineNarrative ==
    "Smith et al. (2020) and Lee (2019) agree (Chen et al., 2020) (Lee and Kim, 2018)."
LinePlain == "Growth was slow."
LineReferences == "References"
LineNumberedReferences == "[1] References"
LineAcknowledgements == "Acknowledgements"
LineRefNumbered == "[1] Smith, \"Growth of cells,\" Nature, 2020."
LineRefIeee == "Smith, \"Growth of cells,\" Nature, 2020."
LineRefNature == "Smith J. Growth of cells. Nature. 2020."
LineRefVancouver == "Smith J. Growth of cells. Nature. 2020;12:3."
LineRefApa == "Smith J. (2020). Growth of cells. Nature, 12"

CiteLines ==
    {LineTenNumbered, LineTwoAuthorYear, LineRanges, LineNarrative, LinePlain,
     LineReferences, LineNumberedReferences, LineAcknowledgements, LineRefNumbered,
     LineRefIeee, LineRefNature, LineRefVancouver, LineRefApa}

Suffixes == {".pdf", ".TXT", ".md", ".docx"}

\* pdf_path.suffix.lower()
SuffixLower(suffix) == IF suffix = ".TXT" THEN ".txt" ELSE suffix

\* the suffixes whose text is read: ".pdf" by pdfplumber, ".txt" and ".md" by read_text
Readable(suffix) == SuffixLower(suffix) \in {".pdf", ".txt", ".md"}

\* len(re.findall(pattern, line)) for the four numbered_patterns, in list order
NumberedHits(line) ==
    CASE line = LineTenNumbered -> <<10, 0, 0, 0>>
      [] line = LineRanges -> <<0, 1, 1, 1>>
      [] line = LineNumberedReferences -> <<1, 0, 0, 0>>
      [] line = LineRefNumbered -> <<1, 0, 0, 0>>
      [] OTHER -> <<0, 0, 0, 0>>

\* len(re.findall(pattern, line)) for the five author_year_patterns, in list order
AuthorYearHits(line) ==
    CASE line = LineTwoAuthorYear -> <<0, 2, 0, 0, 0>>
      [] line = LineNarrative -> <<1, 0, 1, 1, 1>>
      [] OTHER -> <<0, 0, 0, 0, 0>>

\* count += len(re.findall(pattern, full_text)), over the patterns of one family
CountHits(lines, family, patterns) ==
    SumSeq([i \in 1..Len(lines) |->
              SumSeq([n \in 1..patterns |->
                        IF family = "numbered" THEN NumberedHits(lines[i])[n]
                        ELSE AuthorYearHits(lines[i])[n]])])

numbered_count(lines) == CountHits(lines, "numbered", 4)

author_year_count(lines) == CountHits(lines, "author_year", 5)

\* re.search(example_patterns[key], line).group(0), "" when there is no match
ExampleIn(key, line) ==
    CASE key = "numbered" /\ line = LineTenNumbered ->
            "[1], [2], [3], [4], [5], [6], [7], [8], [9], [12]"
      [] key = "numbered" /\ line \in {LineNumberedReferences, LineRefNumbered} -> "[1]"
      [] key = "author_year" /\ line = LineTwoAuthorYear -> "(Smith, 2020)"
      [] key = "author_year" /\ line = LineNarrative -> "(Chen et al., 2020)"
      [] key = "narrative" /\ line = LineNarrative -> "Smith et al. (2020)"
      [] OTHER -> ""

\* re.search(example_patterns[key], full_text): the match in the first line that has one
FirstExample(key, lines) ==
    LET hit == {i \in 1..Len(lines) : ExampleIn(key, lines[i]) # ""}
    IN  IF hit = {} THEN ""
        ELSE ExampleIn(key, lines[CHOOSE i \in hit : \A j \in hit : i <= j])

\* the example loop: the author_year example replaces the numbered one, the
\* narrative one is not stored
example_in_text_citation(lines) ==
    IF FirstExample("author_year", lines) # "" THEN FirstExample("author_year", lines)
    ELSE FirstExample("numbered", lines)

\* which of the seven ref_patterns of extract_references_section match the line
RefHeaderPatterns(line) ==
    CASE line = LineReferences -> {1}
      [] line = LineNumberedReferences -> {5}
      [] OTHER -> {}

\* which of the six end_patterns match at the start of the line
RefEndPatterns(line) == IF line = LineAcknowledgements THEN {4} ELSE {}

\* the least number of a non-empty set
Least(S) == CHOOSE n \in S : \A m \in S : n <= m

extract_references_section(suffix, lines) ==
    IF ~Readable(suffix) THEN <<>>
    ELSE
    LET found == UNION {RefHeaderPatterns(lines[i]) : i \in 1..Len(lines)}
    IN  IF found = {} THEN <<>>
        ELSE
        LET ref_start == Least({i \in 1..Len(lines) : Least(found) \in RefHeaderPatterns(lines[i])})
            ref_text  == SubSeq(lines, ref_start, Len(lines))
            ends      == UNION {RefEndPatterns(ref_text[i]) : i \in 2..Len(ref_text)}
        IN  IF ends = {} THEN ref_text
            ELSE SubSeq(ref_text, 1,
                        Least({i \in 2..Len(ref_text) : Least(ends) \in RefEndPatterns(ref_text[i])}) - 1)

\* the formats whose pattern re.match()es the line
FormatsOf(line) ==
    CASE line = LineRefNature -> {"nature"}
      [] line = LineRefApa -> {"apa"}
      [] line = LineRefVancouver -> {"vancouver"}
      [] line = LineRefIeee -> {"ieee"}
      [] OTHER -> {}

\* the keys of counts, in insertion order
FormatOrder == <<"nature", "apa", "vancouver", "ieee">>

_determine_reference_format(ref_lines) ==
    LET counts == [n \in 1..4 |->
                     Cardinality({i \in 1..Len(ref_lines) : FormatOrder[n] \in FormatsOf(ref_lines[i])})]
        most == CHOOSE c \in {counts[n] : n \in 1..4} : \A n \in 1..4 : counts[n] <= c
    IN  IF most = 0 THEN "nature"
        ELSE FormatOrder[Least({n \in 1..4 : counts[n] = most})]

\* re.match(r"^(references?|bibliography|reference\s*list|\[\d+\]|...)", line, re.IGNORECASE)
IsTitleLine(line) == line \in {LineReferences, LineNumberedReferences, LineRefNumbered}

\* the first of the first ten lines with 20 < len(line) < 500 that is no title line
example_reference(ref_lines) ==
    LET ok == {i \in 1..Len(ref_lines) :
                 /\ i <= 10
                 /\ Len(ref_lines[i]) > 20 /\ Len(ref_lines[i]) < 500
                 /\ ~IsTitleLine(ref_lines[i])}
    IN  IF ok = {} THEN "" ELSE ref_lines[Least(ok)]

\* CitationStyle(): the dataclass defaults
DefaultStyle ==
    [citation_type |-> "author-year", in_text_patterns |-> <<>>,
     reference_format |-> "nature", example_in_text_citation |-> "",
     example_reference |-> "", latex_citation_command |-> "\\citep",
     latex_bibliography_env |-> "thebibliography"]

\* mutant: only the first pattern of each family is counted
analyze_citation_style_first_pattern(suffix, lines) ==
    IF ~Readable(suffix) THEN DefaultStyle
    ELSE
    LET refs_text == extract_references_section(suffix, lines)
    IN  [DefaultStyle EXCEPT
           !.citation_type = IF CountHits(lines, "numbered", 1) > CountHits(lines, "author_year", 1)
                             THEN "numbered" ELSE "author-year",
           !.example_in_text_citation = example_in_text_citation(lines),
           !.reference_format = IF refs_text # <<>> THEN _determine_reference_format(refs_text)
                                ELSE "nature",
           !.example_reference = IF refs_text # <<>> THEN example_reference(refs_text) ELSE ""]

analyze_citation_style(suffix, lines) ==
    IF ~Readable(suffix) THEN DefaultStyle
    ELSE
    LET refs_text == extract_references_section(suffix, lines)
    IN  [DefaultStyle EXCEPT
           !.citation_type = IF numbered_count(lines) > author_year_count(lines)
                             THEN "numbered" ELSE "author-year",
           !.example_in_text_citation = example_in_text_citation(lines),
           !.reference_format = IF refs_text # <<>> THEN _determine_reference_format(refs_text)
                                ELSE "nature",
           !.example_reference = IF refs_text # <<>> THEN example_reference(refs_text) ELSE ""]

CiteInit ==
    /\ OthersIdle("cite")
    /\ cs_suffix \in Suffixes
    /\ cs_lines \in UNION {[1..n -> CiteLines] : n \in 0..MaxLines}
    /\ cs_style = <<>>
    /\ cs_pc = "input"

\* style = self.analyze_citation_style(pdf_path)
AnalyzeCitationStyle ==
    /\ cs_pc = "input"
    /\ cs_style' = analyze_citation_style(cs_suffix, cs_lines)
    /\ cs_pc' = "done"
    /\ UNCHANGED <<cs_suffix, cs_lines, ck_vars, mg_vars, sc_vars, pd_vars, cp_vars, tx_vars, st_vars, dc_vars>>

(***************************************************************************)
(* SectionSegmenter: SECTION_DEFINITIONS and extract_sections.  A text is   *)
(* a sequence of lines joined by "\n", taken from the sample lines below    *)
(* (none has white space at its ends).  Every start pattern is tied to the  *)
(* start of a line, so what a pattern finds is tabulated per line; offsets  *)
(* are character offsets into the joined text.                              *)
(***************************************************************************)
LineBlank == ""
LineResults == "Results"
LineFindings == "Findings"
LineDiscussion == "Discussion"
LineMethods == "Methods"
LineSummary == "Summary"
LineBody60 == "The measured values rose steadily across all sampled plots.."
LineBody42 == "Yields were higher in the irrigated plots."
LineCommentary == "Commentary on the trend."
LineAppendix == "Appendix A"
LineSupplementary == "Supplementary data follow."
LineSixReferences == "6. References"

SectionLines ==
    {LineBlank, LineResults, LineFindings, LineDiscussion, LineMethods, LineSummary,
     LineBody60, LineBody42, LineCommentary, LineAppendix, LineSupplementary,
     LineSixReferences}

\* the section of each start pattern, in the order extract_sections tries them
\* (SECTION_DEFINITIONS in insertion order, each section's "patterns" in list order)
PatternSection ==
    <<"abstract", "abstract", "introduction", "introduction", "materials", "materials",
      "methods", "methods", "results", "results", "discussion", "discussion",
      "conclusion", "conclusion", "acknowledgements", "acknowledgements", "references",
      "references", "references", "references", "appendix", "appendix", "appendix">>

\* the pattern that starts with "^" instead of "(?:^|\n)": the second one of abstract
LineStartAnchored == {2}

\* the start patterns that match the line and run on through the white space after it
\* (a bare heading under a pattern that ends in [\s:]*\n*)
RunsThrough(line) ==
    CASE line = LineResults -> {9}
      [] line = LineFindings -> {9}
      [] line = LineDiscussion -> {11}
      [] line = LineMethods -> {5, 7}
      [] line = LineSummary -> {1, 13}
      [] OTHER -> {}

\* the start patterns that match the whole line up to "$" (the last newline before
\* the next text is left unread)
RunsToLineEnd(line) ==
    CASE line = LineSummary -> {2}
      [] OTHER -> {}

\* the start patterns that match only the beginning of the line
Opens(line) ==
    CASE line = LineCommentary -> {11}
      [] line = LineAppendix -> {21}
      [] OTHER -> {}

StartMatches(line) == RunsThrough(line) \cup RunsToLineEnd(line) \cup Opens(line)

\* the end_patterns of section `name` that match at the start of the line
EndMatches(name, line) ==
    CASE line = LineResults /\ name = "materials" -> {1}
      [] line = LineResults /\ name = "methods" -> {1}
      [] line = LineFindings /\ name = "materials" -> {1}
      [] line = LineFindings /\ name = "methods" -> {1}
      [] line = LineDiscussion /\ name = "results" -> {1}
      [] line = LineMethods /\ name = "introduction" -> {1}
      [] line = LineSummary /\ name = "discussion" -> {1}
      [] line = LineCommentary /\ name = "results" -> {3}
      [] line = LineAppendix /\ name = "conclusion" -> {4}
      [] line = LineAppendix /\ name = "acknowledgements" -> {2}
      [] line = LineAppendix /\ name = "references" -> {1}
      [] line = LineAppendix /\ name = "appendix" -> {1}
      [] line = LineSupplementary /\ name = "conclusion" -> {5}
      [] line = LineSupplementary /\ name = "acknowledgements" -> {3}
      [] line = LineSupplementary /\ name = "references" -> {2}
      [] line = LineSupplementary /\ name = "appendix" -> {1}
      [] line = LineSixReferences /\ name = "conclusion" -> {1}
      [] line = LineSixReferences /\ name = "acknowledgements" -> {1}
      [] OTHER -> {}

\* a paragraph of 5207 characters on one line: the words below, 93 times over,
\* separated by single spaces
LineLong == "Growth was even across the plots and seasons we sampled (93 times)"

\* a nucleotide sequence: "ACGT" 7750 times
LineHuge == "ACGT (7750 times)"

\* a shorter nucleotide sequence: "ACGT" 1250 times, a paragraph of 5000 characters
LineGene == "ACGT (1250 times)"

\* the word "ab" 5000 times, separated by single spaces
LineFiveK == "ab (5000 times)"

\* len(line)
LineLen(line) ==
    CASE line = LineLong -> 5207
      [] line = LineHuge -> 31000
      [] line = LineGene -> 5000
      [] line = LineFiveK -> 14999
      [] OTHER -> Len(line)

\* offset of the first character of line i in "\n".join(lines)
LineStart(lines, i) == SumSeq([j \in 1..(i - 1) |-> LineLen(lines[j]) + 1])

\* len(text)
TextLen(lines) ==
    IF lines = <<>> THEN 0 ELSE LineStart(lines, Len(lines)) + LineLen(lines[Len(lines)])

Greatest(S) == CHOOSE n \in S : \A m \in S : m <= n

\* the last line before i that is not blank, 0 if there is none
PrevText(lines, i) ==
    LET before == {j \in 1..(i - 1) : lines[j] # ""}
    IN  IF before = {} THEN 0 ELSE Greatest(before)

\* the first line after j that is not blank, Len(lines) + 1 if there is none
NextText(lines, j) ==
    LET after == {i \in (j + 1)..Len(lines) : lines[i] # ""}
    IN  IF after = {} THEN Len(lines) + 1 ELSE Least(after)

\* offset where the white space before line i begins: the newline that ends the
\* last non-blank line before it
RunStart(lines, i) ==
    IF PrevText(lines, i) = 0 THEN 0
    ELSE LineStart(lines, PrevText(lines, i)) + LineLen(lines[PrevText(lines, i)])

\* match.end() of start pattern p matching at line j
MatchEnd(lines, p, j) ==
    LET next == NextText(lines, j)
    IN  IF p \in RunsThrough(lines[j])
        THEN IF next > Len(lines) THEN TextLen(lines) ELSE LineStart(lines, next)
        ELSE IF p \in RunsToLineEnd(lines[j])
        THEN IF next > Len(lines) THEN TextLen(lines) ELSE LineStart(lines, next) - 1
        ELSE LineStart(lines, j) + Len(lines[j])

\* match.start() of start pattern p matching at line i, when the previous match of
\* the pattern ended at offset `scanned`: the leftmost offset in the white space
\* before the line that re.finditer has not yet consumed
MatchStart(lines, p, i, scanned) ==
    IF p \in LineStartAnchored
    THEN Least({LineStart(lines, m) : m \in {n \in (PrevText(lines, i) + 1)..i :
                                                LineStart(lines, n) >= scanned}})
    ELSE IF scanned > RunStart(lines, i) THEN scanned ELSE RunStart(lines, i)

\* for match in re.finditer(pattern, text, re.IGNORECASE | re.MULTILINE):
\*     section_starts.append((match.start(), section_name, match.group(0)))
\* from line i on, the previous match having ended at offset `scanned`
RECURSIVE FindIter(_, _, _, _, _)
FindIter(lines, p, i, scanned, starts) ==
    IF i > Len(lines) THEN starts
    ELSE IF p \notin StartMatches(lines[i]) THEN FindIter(lines, p, i + 1, scanned, starts)
    ELSE FindIter(lines, p, i + 1, MatchEnd(lines, p, i),
                  Append(starts, [start |-> MatchStart(lines, p, i, scanned),
                                  name  |-> PatternSection[p]]))

\* the loops over SECTION_DEFINITIONS and over each section's patterns; `patterns`
\* lists, in that order, the patterns still to try (those that match no line find
\* nothing and are left out)
RECURSIVE FindAll(_, _, _)
FindAll(lines, patterns, starts) ==
    IF patterns = <<>> THEN starts
    ELSE FindAll(lines, Tail(patterns), FindIter(lines, Head(patterns), 1, 0, starts))

\* list.sort(key=start): stable, so equal starts keep the order of insertion
RECURSIVE SortByStart(_, _)
SortByStart(starts, sorted) ==
    IF starts = <<>> THEN sorted
    ELSE LET k == Cardinality({j \in 1..Len(sorted) : sorted[j].start <= Head(starts).start})
         IN  SortByStart(Tail(starts),
                         SubSeq(sorted, 1, k) \o <<Head(starts)>> \o SubSeq(sorted, k + 1, Len(sorted)))

\* section_starts after the sort
section_starts(lines) ==
    LET matching == UNION {StartMatches(lines[i]) : i \in 1..Len(lines)}
    IN  SortByStart(FindAll(lines, [n \in 1..Cardinality(matching) |->
                                      CHOOSE q \in matching :
                                          Cardinality({r \in matching : r < q}) = n - 1],
                            <<>>), <<>>)

\* the collapse loop: a start is skipped when the last retained start has the same
\* name and lies less than 50 characters before it
CollapseWindow == 50

\* mutant: the later of two close starts of one name replaces the retained one
RECURSIVE merged_starts_keep_last(_, _)
merged_starts_keep_last(starts, merged) ==
    IF starts = <<>> THEN merged
    ELSE IF /\ merged # <<>>
            /\ merged[Len(merged)].name = Head(starts).name
            /\ Head(starts).start - merged[Len(merged)].start < CollapseWindow
         THEN merged_starts_keep_last(Tail(starts),
                                      [merged EXCEPT ![Len(merged)] = Head(starts)])
         ELSE merged_starts_keep_last(Tail(starts), Append(merged, Head(starts)))

RECURSIVE merged_starts(_, _)
merged_starts(starts, merged) ==
    IF starts = <<>> THEN merged
    ELSE IF /\ merged # <<>>
            /\ merged[Len(merged)].name = Head(starts).name
            /\ Head(starts).start - merged[Len(merged)].start < CollapseWindow
         THEN merged_starts(Tail(starts), merged)
         ELSE merged_starts(Tail(starts), Append(merged, Head(starts)))

\* end_pos before the end patterns: the first later start that is greater, else len(text)
NextStart(lines, merged, i) ==
    LET later == {k \in (i + 1)..Len(merged) : merged[k].start > merged[i].start}
    IN  IF later = {} THEN TextLen(lines) ELSE merged[Least(later)].start

\* the non-blank lines that lie inside text[from:to]
LinesWithin(lines, from, to) ==
    {j \in 1..Len(lines) : lines[j] # "" /\ LineStart(lines, j) >= from /\ LineStart(lines, j) < to}

\* end_pos after the end patterns: the first pattern, in list order, that matches
\* somewhere in text[start:end_pos] cuts the range at its leftmost match
TrimEnd(lines, name, start, end_pos) ==
    LET inside  == LinesWithin(lines, start, end_pos)
        matched == UNION {EndMatches(name, lines[j]) : j \in inside}
    IN  IF matched = {} THEN end_pos
        ELSE LET at == RunStart(lines, Least({j \in inside :
                                                Least(matched) \in EndMatches(name, lines[j])}))
             IN  IF at > start THEN at ELSE start

\* text[start:end_pos].strip(), as the offsets of what is left ([0, 0) when empty)
StripRange(lines, start, end_pos) ==
    LET inside == LinesWithin(lines, start, end_pos)
    IN  IF inside = {} THEN [from |-> 0, to |-> 0]
        ELSE [from |-> LineStart(lines, Least(inside)),
              to   |-> LineStart(lines, Greatest(inside)) + Len(lines[Greatest(inside)])]

\* sections[section_name] = section_content: a new key goes last, a known key keeps
\* its place and takes the new value
DictSet(d, key, value) ==
    IF key \in DictKeys(d)
    THEN [i \in 1..Len(d) |-> IF d[i].k = key THEN [k |-> key, v |-> value] ELSE d[i]]
    ELSE Append(d, [k |-> key, v |-> value])

\* a section is kept when len(section_content) > 50
MinSectionLen == 50

\* the extraction loop over merged_starts, from entry i on
RECURSIVE ExtractFrom(_, _, _, _)
ExtractFrom(lines, merged, i, sections) ==
    IF i > Len(merged) THEN sections
    ELSE LET end_pos == TrimEnd(lines, merged[i].name, merged[i].start,
                                NextStart(lines, merged, i))
             content == StripRange(lines, merged[i].start, end_pos)
         IN  ExtractFrom(lines, merged, i + 1,
                         IF content.to - content.from > MinSectionLen
                         THEN DictSet(sections, merged[i].name, content)
                         ELSE sections)

\* extract_sections(text): section name -> the range of the text its content occupies
extract_sections(lines) ==
    ExtractFrom(lines, merged_starts(section_starts(lines), <<>>), 1, <<>>)

SectionsInit ==
    /\ OthersIdle("sections")
    /\ sc_lines \in UNION {[1..n -> SectionLines] : n \in 0..MaxSecLines}
    /\ sc_sections = <<>>
    /\ sc_pc = "input"

\* sections = self.extract_sections(text)
ExtractSections ==
    /\ sc_pc = "input"
    /\ sc_sections' = extract_sections(sc_lines)
    /\ sc_pc' = "done"
    /\ UNCHANGED <<sc_lines, ck_vars, mg_vars, cs_vars, pd_vars, cp_vars, tx_vars, st_vars, dc_vars>>

(***************************************************************************)
(* extract_text_from_pdf: the file is read by its suffix, each of the six  *)
(* section_patterns is searched once, the fallback_patterns are tried for  *)
(* the sections that are still short, and the conclusion is cut at the     *)
(* first reference marker.  The text is a sequence of sample lines joined  *)
(* by "\n"; what each regular expression sees in a line is tabulated per   *)
(* line, and every extracted text is the range of full_text it occupies.   *)
(***************************************************************************)
LineConclusion == "Conclusion"
LineRefEntry == "[2] Smith, Growth of cells."

PdfLines ==
    {LineBlank, LineResults, LineDiscussion, LineConclusion, LineReferences, LineNumberedReferences,
     LineBody42, LineLong, LineRefEntry}

PdfSuffixes == {".pdf", ".TXT", ".docx"}

\* the keys of section_patterns and of fallback_patterns, in dict order
PdfKinds == <<"abstract", "introduction", "methods", "results", "discussion", "conclusion">>

\* section_patterns[kind], (?:^|\n)\s*(?:KEYWORDS)[\s:]*\n*(.+?)(?=STOP): the end,
\* within the line, of KEYWORDS[\s:]* matched at the start of the line (0: no match)
StrictHeadingEnd(kind, line) ==
    CASE kind = "results" /\ line = LineResults -> 7
      [] kind = "discussion" /\ line = LineDiscussion -> 10
      [] kind = "conclusion" /\ line = LineConclusion -> 10
      [] OTHER -> 0

\* the end of KEYWORDS alone
StrictKeywordEnd(kind, line) ==
    CASE kind = "results" /\ line = LineResults -> 7
      [] kind = "discussion" /\ line = LineDiscussion -> 10
      [] kind = "conclusion" /\ line = LineConclusion -> 10
      [] OTHER -> 0

\* the offsets in the line at which the STOP lookahead of abstract, introduction,
\* methods, results or discussion matches (STOP is not tied to the start of a line)
StrictStopOffsets(kind, line) ==
    CASE kind = "abstract" /\ line = LineNumberedReferences -> {1}
      [] kind = "introduction" /\ line = LineResults -> {0}
      [] kind = "introduction" /\ line = LineRefEntry -> {1}
      [] kind = "methods" /\ line = LineResults -> {0}
      [] kind = "methods" /\ line = LineDiscussion -> {0}
      [] kind = "methods" /\ line = LineConclusion -> {0}
      [] kind = "results" /\ line = LineDiscussion -> {0}
      [] kind = "results" /\ line = LineConclusion -> {0}
      [] kind = "discussion" /\ line = LineConclusion -> {0}
      [] kind = "discussion" /\ line = LineReferences -> {0}
      [] kind = "discussion" /\ line = LineNumberedReferences -> {4}
      [] OTHER -> {}

\* the lines that the STOP of conclusion,
\* \n\s*(?:references|bibliography|acknowledgements|appendix|reference\s*list|...|$),
\* accepts after the newline and the white space
ConclusionStopLine(line) ==
    line \in {LineReferences}

\* fallback_patterns[kind], (?:KEYWORDS)[\s\n]+(.+?)(?=\n\s*\d+\s|\n\s*...): the
\* places in the line where KEYWORDS matches followed by white space or the end of
\* the line (at: start, kw: end of KEYWORDS, ws: end of the white space in the line)
FallbackKeywords(kind, line) ==
    CASE kind = "results" /\ line = LineResults -> {[at |-> 0, kw |-> 7, ws |-> 7]}
      [] kind = "discussion" /\ line = LineDiscussion -> {[at |-> 0, kw |-> 10, ws |-> 10]}
      [] OTHER -> {}

\* the lines that the STOP of fallback_patterns[kind] accepts after \n\s*
FallbackStopLine(kind, line) ==
    CASE kind = "methods" -> line \in {LineResults, LineDiscussion}
      [] kind = "results" -> line \in {LineDiscussion, LineConclusion}
      [] kind = "discussion" -> line \in {LineConclusion}
      [] OTHER -> FALSE

\* fallback_patterns["conclusion"]: the places in the line where
\* (?:conclusion|conclusions|final\s*remarks|concl[\.]?\s*(?:\d+)?)[\s\n:]* matches
\* (at: start, ws: end, short: a shorter match leaves a character of the line over)
ConclusionKeywords(line) ==
    CASE line = LineConclusion -> {[at |-> 0, ws |-> 10, short |-> TRUE]}
      [] OTHER -> {}

\* the lines that the negative lookahead of fallback_patterns["conclusion"] accepts
\* after \n\s*: (?:\[\d+\]\s*)?references?\b, (?:\[\d+\]\s*)?bibliography,
\* acknowledgements, reference\s+list, appendix
NegativeLine(line) ==
    line \in {LineReferences, LineNumberedReferences}

\* the ref_patterns (1..15, in list order) that match at the line: 1..13 from the
\* newline before it, 14 and 15 from its first character
RefPatternsAt(line) ==
    CASE line = LineReferences -> {4, 14}
      [] line = LineNumberedReferences -> {1, 3}
      [] OTHER -> {}

\* re.match(r"^\[\d+\]|^[A-Z][a-z]+,\s*\d{4}|^\s*\d+\.\s+", para) for a paragraph
\* that begins with the line
ReferenceLike(line) ==
    line \in {LineNumberedReferences, LineRefEntry}

\* the number of white-space characters that end line[:o]
SpaceBefore(line, o) ==
    CASE line = LineNumberedReferences /\ o = 4 -> 1
      [] OTHER -> 0

\* full_text: a pdf gives the text of its one page followed by "\n", a text file
\* gives its content
full_text(suffix, lines) ==
    IF SuffixLower(suffix) # ".pdf" THEN lines
    ELSE IF lines = <<>> THEN <<"", "">> ELSE Append(lines, "")

\* offset just after the last character of line i
LineEnd(lines, i) == LineStart(lines, i) + LineLen(lines[i])

\* the line that holds offset p (the newline that ends a line belongs to it)
LineOf(lines, p) == Greatest({j \in 1..Len(lines) : LineStart(lines, j) <= p})

\* where a greedy run of white space ends that begins at offset e of line i
SkipSpace(lines, i, e) ==
    IF e < LineLen(lines[i]) THEN LineStart(lines, i) + e
    ELSE IF NextText(lines, i) > Len(lines) THEN TextLen(lines)
    ELSE LineStart(lines, NextText(lines, i))

Only(S) == CHOOSE x \in S : TRUE

\* full_text[a:p].strip(), as the range it occupies
StripSpan(lines, a, p) ==
    LET ja   == LineOf(lines, a)
        from == IF a # LineEnd(lines, ja) THEN a
                ELSE IF NextText(lines, ja) > Len(lines) THEN p
                ELSE LineStart(lines, NextText(lines, ja))
        jp   == LineOf(lines, p)
        kept == (p - LineStart(lines, jp)) - SpaceBefore(lines[jp], p - LineStart(lines, jp))
        to   == IF kept > 0 THEN LineStart(lines, jp) + kept
                ELSE IF PrevText(lines, jp) = 0 THEN 0
                ELSE LineEnd(lines, PrevText(lines, jp))
    IN  IF to > from THEN [from |-> from, to |-> to] ELSE [from |-> from, to |-> from]

\* whether \n\s*<line> satisfies the lookahead of the family: the STOP of the strict
\* conclusion pattern, the STOP of a fallback pattern, or the negative lookahead of
\* the fallback conclusion pattern
StopLineIs(family, kind, line) ==
    CASE family = "strict"   -> ConclusionStopLine(line)
      [] family = "fallback" -> FallbackStopLine(kind, line)
      [] family = "negative" -> NegativeLine(line)

\* the newlines from which the lookahead of the family matches: those followed, after
\* white space, by a line it accepts; for the strict conclusion pattern also those
\* followed by white space only ($ matches at the end of the text)
NewlineStops(lines, family, kind) ==
    {LineEnd(lines, i) : i \in {k \in 1..(Len(lines) - 1) :
        IF NextText(lines, k) > Len(lines) THEN family = "strict"
        ELSE StopLineIs(family, kind, lines[NextText(lines, k)])}}

\* where (.+?)(?=STOP) ends when the white space before it ran to offset g: at the
\* first stop after g; failing that the white space is given back and the match ends
\* at the last stop in [lo, g]; {} when there is none
LazyEnd(stops, g, lo) ==
    LET after == {p \in stops : p > g}
        back  == {p \in stops : lo <= p /\ p <= g}
    IN  IF after # {} THEN {Least(after)}
        ELSE IF back # {} THEN {Greatest(back)}
        ELSE {}

\* the offsets at which the STOP lookahead of section_patterns[kind] matches
StrictStops(lines, kind) ==
    IF kind = "conclusion" THEN NewlineStops(lines, "strict", kind)
    ELSE UNION {{LineStart(lines, j) + o : o \in StrictStopOffsets(kind, lines[j])} :
                j \in 1..Len(lines)}

\* match.end() of section_patterns[kind] when its heading is line i
StrictEnd(lines, kind, i) ==
    LazyEnd(StrictStops(lines, kind),
            SkipSpace(lines, i, StrictHeadingEnd(kind, lines[i])),
            LineStart(lines, i) + StrictKeywordEnd(kind, lines[i]) + 1)

\* re.search(section_patterns[kind], text_lower, re.DOTALL | re.IGNORECASE), as the
\* range of full_text[match.start():match.end()].strip(); {} when there is no match
StrictSearch(lines, kind) ==
    LET at == {i \in 1..Len(lines) : /\ StrictHeadingEnd(kind, lines[i]) > 0
                                     /\ StrictEnd(lines, kind, i) # {}}
    IN  IF at = {} THEN {}
        ELSE {StripSpan(lines, RunStart(lines, Least(at)),
                        Only(StrictEnd(lines, kind, Least(at))))}

\* the offsets at which the negative lookahead of fallback_patterns["conclusion"]
\* matches; its last alternative \n\s*$\n takes a newline that only white space
\* separates from the newline that ends the text
NegativeStops(lines) ==
    NewlineStops(lines, "negative", "conclusion") \cup
    (IF Len(lines) >= 2 /\ lines[Len(lines)] = ""
     THEN {LineEnd(lines, q) : q \in {k \in 1..(Len(lines) - 2) : NextText(lines, k) > Len(lines)}}
     ELSE {})

\* re.search(fallback_patterns["conclusion"], ...): [^\n]+ takes the rest of the first
\* line after the keyword and the white space, and the match runs to the first
\* offset from there on at which the negative lookahead matches, else to the end
ConclusionFallback(lines) ==
    LET found == UNION {{[start |-> LineStart(lines, i) + k.at,
                           body  |-> IF SkipSpace(lines, i, k.ws) < TextLen(lines)
                                     THEN {LineEnd(lines, LineOf(lines, SkipSpace(lines, i, k.ws)))}
                                     ELSE IF k.short THEN {LineEnd(lines, i)} ELSE {}] :
                          k \in ConclusionKeywords(lines[i])} : i \in 1..Len(lines)}
        hits  == {f \in found : f.body # {}}
    IN  IF hits = {} THEN {}
        ELSE LET first == CHOOSE f \in hits : \A h \in hits : f.start <= h.start
                 later == {p \in NegativeStops(lines) : p >= Only(first.body)}
             IN  {StripSpan(lines, first.start,
                            IF later = {} THEN TextLen(lines) ELSE Least(later))}

\* re.search(fallback_patterns[kind], text_lower, re.DOTALL | re.IGNORECASE), as the
\* range of full_text[match.start():match.end()].strip(); {} when there is no match
FallbackSearch(lines, kind) ==
    IF kind = "conclusion" THEN ConclusionFallback(lines)
    ELSE LET found == UNION {{[start |-> LineStart(lines, i) + k.at,
                                end   |-> LazyEnd(NewlineStops(lines, "fallback", kind),
                                                  SkipSpace(lines, i, k.ws),
                                                  LineStart(lines, i) + k.kw + 2)] :
                               k \in {m \in FallbackKeywords(kind, lines[i]) :
                                        ~(m.ws = LineLen(lines[i]) /\ i = Len(lines))}} :
                             i \in 1..Len(lines)}
             hits  == {f \in found : f.end # {}}
         IN  IF hits = {} THEN {}
             ELSE LET first == CHOOSE f \in hits : \A h \in hits : f.start <= h.start
                  IN  {StripSpan(lines, first.start, Only(first.end))}

\* sections = {"introduction": "", "methods": "", "results": "", "discussion": ""}
EmptyText == [from |-> 0, to |-> 0]

InitialSections ==
    <<[k |-> "introduction", v |-> EmptyText], [k |-> "methods", v |-> EmptyText],
      [k |-> "results", v |-> EmptyText], [k |-> "discussion", v |-> EmptyText]>>

\* for section, pattern in section_patterns.items(): a match stores the section
RECURSIVE StrictLoop(_, _, _)
StrictLoop(lines, kinds, sections) ==
    IF kinds = <<>> THEN sections
    ELSE LET match == StrictSearch(lines, Head(kinds))
         IN  StrictLoop(lines, Tail(kinds),
                        IF match = {} THEN sections
                        ELSE DictSet(sections, Head(kinds), Only(match)))

\* a section is tried again when it is empty or shorter than 100 characters
FallbackBelow == 100

\* for section in sections: the fallback pattern is tried for every key that
\* sections holds by now whose text is short; a match replaces the text
RECURSIVE FallbackLoop(_, _, _)
FallbackLoop(lines, i, sections) ==
    IF i > Len(sections) THEN sections
    ELSE LET text  == sections[i].v
             match == IF text.to - text.from < FallbackBelow
                      THEN FallbackSearch(lines, sections[i].k) ELSE {}
         IN  FallbackLoop(lines, i + 1,
                          IF match = {} THEN sections
                          ELSE DictSet(sections, sections[i].k, Only(match)))

\* the sections before the conclusion is post-processed
sections_before_truncation(suffix, lines) ==
    FallbackLoop(full_text(suffix, lines), 1,
                 StrictLoop(full_text(suffix, lines), PdfKinds, InitialSections))

\* the ref_patterns that match in conclusion_text (the range c), each with the
\* offset of its leftmost match, without the three bracket-numbered patterns
ref_matches_unnumbered(lines, c) ==
    LET after == {j \in 1..Len(lines) : /\ lines[j] # ""
                                        /\ c.from < LineStart(lines, j)
                                        /\ LineEnd(lines, j) <= c.to}
        first == {j \in 1..Len(lines) : /\ lines[j] # ""
                                        /\ c.from = LineStart(lines, j)
                                        /\ LineEnd(lines, j) <= c.to}
    IN  {[pattern |-> k, start |-> RunStart(lines, Least({j \in after : k \in RefPatternsAt(lines[j])}))] :
            k \in {n \in 4..13 : \E j \in after : n \in RefPatternsAt(lines[j])}}
        \cup
        {[pattern |-> k, start |-> LineStart(lines, Least({j \in after \cup first : k \in RefPatternsAt(lines[j])}))] :
            k \in {n \in 14..15 : \E j \in after \cup first : n \in RefPatternsAt(lines[j])}}

\* the ref_patterns that match in conclusion_text (the range c), each with
\* ref_match.start(): patterns 1..13 begin at the newline that ends the text before
\* the marker line, patterns 14 and 15 at the marker line itself
ref_matches(lines, c) ==
    LET after == {j \in 1..Len(lines) : /\ lines[j] # ""
                                        /\ c.from < LineStart(lines, j)
                                        /\ LineEnd(lines, j) <= c.to}
        first == {j \in 1..Len(lines) : /\ lines[j] # ""
                                        /\ c.from = LineStart(lines, j)
                                        /\ LineEnd(lines, j) <= c.to}
    IN  {[pattern |-> k, start |-> RunStart(lines, Least({j \in after : k \in RefPatternsAt(lines[j])}))] :
            k \in {n \in 1..13 : \E j \in after : n \in RefPatternsAt(lines[j])}}
        \cup
        {[pattern |-> k, start |-> LineStart(lines, Least({j \in after \cup first : k \in RefPatternsAt(lines[j])}))] :
            k \in {n \in 14..15 : \E j \in after \cup first : n \in RefPatternsAt(lines[j])}}

\* the branch for a conclusion that is still longer than 5000 characters
LongConclusion == 5000

\* a reference-like paragraph is skipped only when it is shorter than 500 characters
ShortParagraph == 500

\* the offsets of the "\n\n" separators that conclusion_text.split("\n\n") consumes:
\* a run of newlines is paired off from its left end
Separators(lines, c) ==
    UNION {{LineEnd(lines, i) + t : t \in {u \in 0..(NextText(lines, i) - i - 2) : u % 2 = 0}} :
           i \in {j \in 1..Len(lines) : /\ lines[j] # ""
                                        /\ LineEnd(lines, j) >= c.from
                                        /\ LineEnd(lines, j) < c.to}}

\* paragraphs = conclusion_text.split("\n\n"), as ranges
conclusion_paragraphs(lines, c) ==
    LET seps == Separators(lines, c)
        sep(t) == CHOOSE s \in seps : Cardinality({r \in seps : r < s}) = t - 1
    IN  [t \in 1..(Cardinality(seps) + 1) |->
            [from |-> IF t = 1 THEN c.from ELSE sep(t - 1) + 2,
             to   |-> IF t = Cardinality(seps) + 1 THEN c.to ELSE sep(t)]]

\* the test that makes the backward loop skip a paragraph: its stripped text looks
\* like a reference entry and is shorter than 500 characters
LooksLikeReference(lines, para) ==
    /\ para.to > para.from
    /\ LET text == StripSpan(lines, para.from, para.to)
       IN  /\ text.to > text.from
           /\ text.from = LineStart(lines, LineOf(lines, text.from))
           /\ ReferenceLike(lines[LineOf(lines, text.from)])
           /\ text.to - text.from < ShortParagraph

\* "\n\n".join(paragraphs[: last_valid_idx + 1]), stored when it is shorter than
\* conclusion_text; last_valid_idx is the last paragraph that is not skipped, or the
\* last paragraph when all are skipped
truncated(lines, c) ==
    LET paras == conclusion_paragraphs(lines, c)
        valid == {t \in 1..Len(paras) : ~LooksLikeReference(lines, paras[t])}
        last_valid_idx == IF valid = {} THEN Len(paras) ELSE Greatest(valid)
    IN  IF paras[last_valid_idx].to < c.to
        THEN [from |-> c.from, to |-> paras[last_valid_idx].to]
        ELSE c

\* the post-processing of sections["conclusion"]: the first ref_pattern, in list
\* order, that matches cuts the text at its leftmost match; otherwise a text longer
\* than 5000 characters loses its trailing reference-like paragraphs
truncate_conclusion(lines, sections) ==
    LET c    == DictGet(sections, "conclusion", EmptyText)
        hits == ref_matches(lines, c)
    IN  IF c.to = c.from THEN sections
        ELSE IF hits # {}
        THEN LET ref_match == CHOOSE h \in hits : \A g \in hits : h.pattern <= g.pattern
             IN  DictSet(sections, "conclusion", StripSpan(lines, c.from, ref_match.start))
        ELSE IF c.to - c.from > LongConclusion
        THEN DictSet(sections, "conclusion", truncated(lines, c))
        ELSE sections

\* extract_text_from_pdf(pdf_path): raises ValueError for a suffix that is neither
\* ".pdf" nor ".txt" nor ".md", else returns sections
extract_text_from_pdf(suffix, lines) ==
    IF ~Readable(suffix) THEN [raised |-> TRUE, sections |-> <<>>]
    ELSE [raised   |-> FALSE,
          sections |-> truncate_conclusion(full_text(suffix, lines),
                                           sections_before_truncation(suffix, lines))]

PdfInit ==
    /\ OthersIdle("pdf")
    /\ pd_suffix \in PdfSuffixes
    /\ pd_lines \in UNION {[1..n -> PdfLines] : n \in 0..MaxPdfLines}
    /\ pd_out = <<>>
    /\ pd_pc = "input"

\* sections = self.extract_text_from_pdf(paper_path)
ExtractTextFromPdf ==
    /\ pd_pc = "input"
    /\ pd_out' = extract_text_from_pdf(pd_suffix, pd_lines)
    /\ pd_pc' = IF Readable(pd_suffix) THEN "done" ELSE "raised"
    /\ UNCHANGED <<pd_suffix, pd_lines, ck_vars, mg_vars, cs_vars, sc_vars, cp_vars, tx_vars, st_vars, dc_vars>>

(***************************************************************************)
(* CorpusAggregator: analyze_papers with analyze_text, _merge_chunk_results *)
(* and _create_smaller_chunks.  A paper is a file name with its lines; its  *)
(* sections come from extract_text_from_pdf, a section text is the run of   *)
(* lines it covers, and the tagger gives every line its tokens.             *)
(***************************************************************************)
LinePhoto ==
    "The photosynthesis Went very quickly in green Cells. photosynthesis was doing PH photosynthesis."

LineWide ==
    "cell gene leaf root stem seed soil water light plant enzyme protein tissue sample method model value field growth yield cell gene leaf root stem seed soil water light plant enzyme protein tissue sample method model value field growth yield photosynthesis"

LinePassive ==
    "samples were dried quickly. Cells grew fast. Cells grew fast. Cells grew fast. Cells grew fast. Cells grew fast. Cells grew fast. Cells grew fast. Cells grew fast. Cells grew fast."

LineHedged == "This may suggest growth."

\* a sentence that holds 27 of the hedging terms, seven more than the report keeps
LineHedges ==
    "Growth approximately roughly about suggests suggested may might could would possibly perhaps probably relatively somewhat fairly rather tends tended appears appeared seems indicates indicated."

Papers == {"a.pdf", "b.txt", "c.docx", "d.md", "e.TXT", "g.txt", "h.txt", "n.txt", "torn.pdf"}

\* paper_path.suffix
PaperSuffix(paper) ==
    CASE paper \in {"a.pdf", "torn.pdf"} -> ".pdf"
      [] paper \in {"b.txt", "g.txt", "h.txt", "n.txt"} -> ".txt"
      [] paper = "c.docx" -> ".docx"
      [] paper = "d.md" -> ".md"
      [] paper = "e.TXT" -> ".TXT"

\* the lines of the file (of its pages, for a PDF)
PaperLines(paper) ==
    CASE paper = "a.pdf" -> <<LineResults, LinePhoto, LineDiscussion, LinePassive, LineConclusion>>
      [] paper = "b.txt" -> <<LineResults, LineWide, LineDiscussion>>
      [] paper = "c.docx" -> <<LineResults, LinePhoto, LineDiscussion>>
      [] paper = "d.md" -> <<LineBlank, LineBlank>>
      [] paper = "e.TXT" ->
            <<LineResults, LinePhoto, LineHedged, LineDiscussion, LineWide, LineReferences>>
      [] paper = "g.txt" -> <<LineResults, LineHuge, LineBlank, LinePhoto, LineDiscussion>>
      [] paper = "h.txt" -> <<LineResults, LineHedges, LineDiscussion>>
      [] paper = "n.txt" -> <<LineResults, LineTenNumbered, LineDiscussion>>
      [] paper = "torn.pdf" -> <<>>

\* whether pdfplumber.open / Path.read_text can read the file
CanRead(paper) == paper # "torn.pdf"

\* sections = self.extract_text_from_pdf(paper_path)
ExtractPaper(paper) ==
    IF ~CanRead(paper) THEN [raised |-> TRUE, sections |-> <<>>]
    ELSE extract_text_from_pdf(PaperSuffix(paper), PaperLines(paper))

\* the lines that a section text covers
TextOf(lines, text) ==
    LET inside == {j \in 1..Len(lines) :
                     /\ LineStart(lines, j) >= text.from
                     /\ LineStart(lines, j) + LineLen(lines[j]) <= text.to}
    IN  IF text.to = text.from \/ inside = {} THEN <<>>
        ELSE SubSeq(lines, Least(inside), Greatest(inside))

\* the returned dict with every text given by its lines; lines is the full text
SectionTexts(sections, lines) ==
    [s \in 1..Len(sections) |-> [k |-> sections[s].k, v |-> TextOf(lines, sections[s].v)]]

\* not text.strip()
IsBlank(text) == \A i \in 1..Len(text) : text[i] = LineBlank

\* self.nlp on one line
LineDoc(line) ==
    CASE line = LinePhoto -> SampleDoc("photo")
      [] line = LineWide -> SampleDoc("wide")
      [] line = LinePassive -> SampleDoc("p1")
      [] line = LineHedged ->
            [tokens |-> <<Tok("This", "this", "PRON", "nsubj"), Tok("may", "may", "AUX", "aux"),
                          Tok("suggest", "suggest", "VERB", "ROOT"),
                          Tok("growth", "growth", "NOUN", "dobj"),
                          Tok(".", ".", "PUNCT", "punct")>>,
             sents  |-> <<4>>,
             broken |-> FALSE]
      [] line = LineHedges ->
            [tokens |-> <<Tok("Growth", "growth", "NOUN", "nsubj"),
                          Tok("approximately", "approximately", "ADV", "advmod"),
                          Tok("roughly", "roughly", "ADV", "advmod"),
                          Tok("about", "about", "ADP", "prep"),
                          Tok("suggests", "suggest", "VERB", "ROOT"),
                          Tok("suggested", "suggest", "VERB", "conj"),
                          Tok("may", "may", "AUX", "aux"), Tok("might", "might", "AUX", "aux"),
                          Tok("could", "could", "AUX", "aux"),
                          Tok("would", "would", "AUX", "aux"),
                          Tok("possibly", "possibly", "ADV", "advmod"),
                          Tok("perhaps", "perhaps", "ADV", "advmod"),
                          Tok("probably", "probably", "ADV", "advmod"),
                          Tok("relatively", "relatively", "ADV", "advmod"),
                          Tok("somewhat", "somewhat", "ADV", "advmod"),
                          Tok("fairly", "fairly", "ADV", "advmod"),
                          Tok("rather", "rather", "ADV", "advmod"),
                          Tok("tends", "tend", "VERB", "conj"),
                          Tok("tended", "tend", "VERB", "conj"),
                          Tok("appears", "appear", "VERB", "conj"),
                          Tok("appeared", "appear", "VERB", "conj"),
                          Tok("seems", "seem", "VERB", "conj"),
                          Tok("indicates", "indicate", "VERB", "conj"),
                          Tok("indicated", "indicate", "VERB", "conj"),
                          Tok(".", ".", "PUNCT", "punct")>>,
             sents  |-> <<24>>,
             broken |-> FALSE]
      [] line = LineHuge ->
            [tokens |-> <<Tok(LineHuge, LineHuge, "PROPN", "ROOT")>>,
             sents  |-> <<1>>,
             broken |-> FALSE]
      [] line = LineTenNumbered ->
            [tokens |-> <<Tok("Yields", "yield", "NOUN", "nsubj"), Tok("rose", "rise", "VERB", "ROOT")>>
                        \o [i \in 1..10 |-> Tok("[1]", "[1]", "X", "dep")]
                        \o <<Tok(".", ".", "PUNCT", "punct")>>,
             sents  |-> <<12>>,
             broken |-> FALSE]
      [] line = LineGene ->
            [tokens |-> <<Tok(LineGene, LineGene, "PROPN", "ROOT")>>,
             sents  |-> <<1>>,
             broken |-> FALSE]
      [] line = LineFiveK ->
            [tokens |-> [i \in 1..5000 |-> Tok("ab", "ab", "X", "dep")],
             sents  |-> <<5000>>,
             broken |-> FALSE]
      [] line = LineResults ->
            [tokens |-> <<Tok("Results", "result", "NOUN", "ROOT")>>,
             sents  |-> <<1>>,
             broken |-> FALSE]
      [] line = LineDiscussion ->
            [tokens |-> <<Tok("Discussion", "discussion", "NOUN", "ROOT")>>,
             sents  |-> <<1>>,
             broken |-> FALSE]
      [] OTHER -> [tokens |-> <<>>, sents |-> <<>>, broken |-> FALSE]

\* doc = self.nlp(chunk): the tokens and sentences of the chunk's lines, in order
RECURSIVE nlp(_)
nlp(chunk) ==
    IF chunk = <<>> THEN [tokens |-> <<>>, sents |-> <<>>, broken |-> FALSE]
    ELSE LET doc  == LineDoc(Head(chunk))
             rest == nlp(Tail(chunk))
         IN  [tokens |-> doc.tokens \o rest.tokens,
              sents  |-> doc.sents \o rest.sents,
              broken |-> doc.broken \/ rest.broken]

\* len(line.split())
WordCount(line) ==
    CASE line = LinePhoto -> 13
      [] line = LineWide -> 41
      [] line = LinePassive -> 31
      [] line = LineHedged -> 4
      [] line = LineHedges -> 24
      [] line = LineTenNumbered -> 12
      [] line = LineBlank -> 0
      [] line = LineFiveK -> 5000
      [] OTHER -> 1

max_chunk_size == 30000

RetryAbove == 10000

SmallerChunkSize == 5000

\* paragraphs = text.split("\n\n"): an empty line that is neither the first line of
\* its paragraph nor the last line of the text is the separator
RECURSIVE LineParagraphs(_, _, _)
LineParagraphs(text, i, current) ==
    IF i > Len(text) THEN <<IF current = <<>> THEN <<"">> ELSE current>>
    ELSE IF text[i] = "" /\ current # <<>> /\ i < Len(text)
         THEN <<current>> \o LineParagraphs(text, i + 1, <<>>)
    ELSE LineParagraphs(text, i + 1, Append(current, text[i]))

\* current_chunk: the paragraphs added so far, each followed by "\n\n"
RECURSIVE JoinLineParagraphs(_)
JoinLineParagraphs(paragraphs) ==
    IF paragraphs = <<>> THEN <<>>
    ELSE IF Tail(paragraphs) = <<>> THEN Head(paragraphs)
    ELSE Head(paragraphs) \o <<"">> \o JoinLineParagraphs(Tail(paragraphs))

\* len(current_chunk)
CurrentLen(paragraphs) == SumSeq([n \in 1..Len(paragraphs) |-> TextLen(paragraphs[n]) + 2])

\* current_chunk.strip(), for a chunk that is not blank
StripBlankLines(text) ==
    LET full == {i \in 1..Len(text) : text[i] # LineBlank}
    IN  SubSeq(text, Least(full), Greatest(full))

\* if current_chunk.strip(): chunks.append(current_chunk.strip())
AppendChunk(chunks, paragraphs) ==
    IF IsBlank(JoinLineParagraphs(paragraphs)) THEN chunks
    ELSE Append(chunks, StripBlankLines(JoinLineParagraphs(paragraphs)))

\* for paragraph in paragraphs: ... (the loop of analyze_text and the flush after it)
RECURSIVE PackLineParagraphs(_, _, _)
PackLineParagraphs(paragraphs, current, chunks) ==
    IF paragraphs = <<>> THEN AppendChunk(chunks, current)
    ELSE IF CurrentLen(current) + TextLen(Head(paragraphs)) < max_chunk_size
         THEN PackLineParagraphs(Tail(paragraphs), Append(current, Head(paragraphs)), chunks)
    ELSE PackLineParagraphs(Tail(paragraphs), <<Head(paragraphs)>>,
                            AppendChunk(chunks, current))

\* the chunks of analyze_text
text_chunks(text) ==
    IF TextLen(text) > max_chunk_size
    THEN PackLineParagraphs(LineParagraphs(text, 1, <<>>), <<>>, <<>>)
    ELSE <<text>>

\* words before line j of the chunk
WordsBefore(chunk, j) == SumSeq([i \in 1..(j - 1) |-> WordCount(chunk[i])])

\* words = text.split(); for i in range(0, len(words), chunk_size): " ".join(words[i:i+chunk_size])
\* a sub-chunk is given by the lines whose words it holds
_create_smaller_chunks(chunk, chunk_size) ==
    LET words == WordsBefore(chunk, Len(chunk) + 1)
        count == (words + chunk_size - 1) \div chunk_size
    IN  [n \in 1..count |->
            Pick(chunk, {j \in 1..Len(chunk) :
                           /\ WordCount(chunk[j]) > 0
                           /\ WordsBefore(chunk, j) \div chunk_size = n - 1})]

\* a dict of analyze_text: the top-level keys it holds, and their values
Get(analysis, key, default) == IF key \in analysis.keys THEN analysis[key] ELSE default

\* return {}
EmptyDict ==
    [keys |-> {}, vocabulary |-> <<>>,
     sentence_structure |-> [avg_sentence_length |-> <<>>, sentence_count |-> <<>>,
                             total_tokens |-> <<>>],
     stylistic_features |-> [passive_voice_ratio |-> <<>>, token_count |-> <<>>],
     nouns |-> <<>>, verbs |-> <<>>, adjectives |-> <<>>, adverbs |-> <<>>,
     avg_sentence_length |-> FZero, passive_voice_ratio |-> FZero]

\* merged_result = {"vocabulary": {}, "sentence_structure": {}, "stylistic_features": {}}
\* (a key of the two inner dicts exists when its list is not empty)
merged_result ==
    [EmptyDict EXCEPT !.keys = {"vocabulary", "sentence_structure", "stylistic_features"}]

\* for category in [...]: for word, freq in chunk_result["vocabulary"][category].items():
\* the category is created in merged["vocabulary"] with its first word
RECURSIVE MergeCategories(_, _, _)
MergeCategories(categories, vocabulary, chunk_vocabulary) ==
    IF categories = <<>> THEN vocabulary
    ELSE LET category == Head(categories)
             words    == chunk_vocabulary[category]
         IN  MergeCategories(Tail(categories),
                 IF words = <<>> THEN vocabulary
                 ELSE DictSet(vocabulary, category,
                              DictMerge(DictGet(vocabulary, category, <<>>), words)),
                 chunk_vocabulary)

_merge_chunk_results(merged, chunk_result) ==
    LET vocabulary == MergeCategories(<<"nouns", "verbs", "adjectives", "adverbs">>,
                                      merged.vocabulary, chunk_result.vocabulary)
        structure  ==
            [avg_sentence_length |->
                Append(merged.sentence_structure.avg_sentence_length,
                       chunk_result.sentence_structure.avg_sentence_length),
             sentence_count |->
                Append(merged.sentence_structure.sentence_count,
                       chunk_result.sentence_structure.sentence_count),
             total_tokens |->
                Append(merged.sentence_structure.total_tokens,
                       chunk_result.sentence_structure.total_tokens)]
        \* read before the chunk's stylistic_features are appended
        ratios == merged.stylistic_features.passive_voice_ratio
        compat == "vocabulary" \in merged.keys
    IN  [keys |-> merged.keys
                  \cup (IF compat
                        THEN {"nouns", "verbs", "adjectives", "adverbs", "avg_sentence_length"}
                        ELSE {})
                  \cup (IF compat /\ ratios # <<>> THEN {"passive_voice_ratio"} ELSE {}),
         vocabulary |-> vocabulary,
         sentence_structure |-> structure,
         stylistic_features |->
            [passive_voice_ratio |->
                Append(ratios, chunk_result.stylistic_features.passive_voice_ratio),
             token_count |->
                Append(merged.stylistic_features.token_count,
                       chunk_result.stylistic_features.token_count)],
         nouns      |-> IF compat THEN DictGet(vocabulary, "nouns", <<>>) ELSE merged.nouns,
         verbs      |-> IF compat THEN DictGet(vocabulary, "verbs", <<>>) ELSE merged.verbs,
         adjectives |-> IF compat THEN DictGet(vocabulary, "adjectives", <<>>)
                        ELSE merged.adjectives,
         adverbs    |-> IF compat THEN DictGet(vocabulary, "adverbs", <<>>) ELSE merged.adverbs,
         avg_sentence_length |->
            IF compat THEN FMean(structure.avg_sentence_length)
            ELSE merged.avg_sentence_length,
         passive_voice_ratio |->
            IF compat /\ ratios # <<>> THEN FMean(ratios) ELSE merged.passive_voice_ratio]

\* for smaller_chunk in smaller_chunks: try ... except: continue
\* (fails holds <<i, j>> when self.nlp raises on sub-chunk j of chunk i)
RECURSIVE MergeSmaller(_, _, _, _, _)
MergeSmaller(smaller_chunks, i, j, merged, fails) ==
    IF j > Len(smaller_chunks) THEN merged
    ELSE MergeSmaller(smaller_chunks, i, j + 1,
             IF <<i, j>> \in fails THEN merged
             ELSE _merge_chunk_results(merged, _analyze_chunk(nlp(smaller_chunks[j]))),
             fails)

\* for i, chunk in enumerate(chunks): try ... except ...
\* (fails holds <<i, 0>> when self.nlp raises on chunk i)
RECURSIVE MergeChunks(_, _, _, _)
MergeChunks(chunks, i, merged, fails) ==
    IF i > Len(chunks) THEN merged
    ELSE MergeChunks(chunks, i + 1,
             IF <<i, 0>> \notin fails
             THEN _merge_chunk_results(merged, _analyze_chunk(nlp(chunks[i])))
             ELSE IF TextLen(chunks[i]) > RetryAbove
                  THEN MergeSmaller(_create_smaller_chunks(chunks[i], SmallerChunkSize),
                                    i, 1, merged, fails)
             ELSE merged,
             fails)

analyze_text(text, fails) ==
    IF IsBlank(text) THEN EmptyDict
    ELSE MergeChunks(text_chunks(text), 1, merged_result, fails)

\* the calls of self.nlp that analyze_text can make for a text: <<i, 0>> for chunk i,
\* <<i, j>> for sub-chunk j of a chunk i longer than RetryAbove
NlpCalls(text) ==
    LET chunks == text_chunks(text)
    IN  {<<i, 0>> : i \in 1..Len(chunks)}
        \cup UNION {{<<i, j>> : j \in 1..Len(_create_smaller_chunks(chunks[i], SmallerChunkSize))} :
                        i \in {n \in 1..Len(chunks) : TextLen(chunks[n]) > RetryAbove}}

\* HEDGING_TERMS, a set literal
HEDGING_TERMS ==
    {"approximately", "roughly", "about", "suggest", "suggests", "suggested", "may", "might",
     "could", "would", "possibly", "perhaps", "probably", "relatively", "somewhat", "fairly",
     "rather", "tend", "tends", "tended", "appear", "appears", "appeared", "seem", "seems",
     "seemed, indicate", "indicates", "indicated"}

\* the order in which "for word in self.HEDGING_TERMS" visits the set is not fixed by
\* the language: two orders of the terms, one the reverse of the other
HedgingOrder ==
    <<"approximately", "roughly", "about", "suggest", "suggests", "suggested", "may", "might",
      "could", "would", "possibly", "perhaps", "probably", "relatively", "somewhat", "fairly",
      "rather", "tend", "tends", "tended", "appear", "appears", "appeared", "seem", "seems",
      "seemed, indicate", "indicates", "indicated">>

HedgingOrders ==
    {HedgingOrder, [n \in 1..Len(HedgingOrder) |-> HedgingOrder[Len(HedgingOrder) + 1 - n]]}

\* line.lower().count(word)
LineCount(line, word) ==
    CASE line = LineHedged /\ word \in {"may", "suggest"} -> 1
      [] line = LineHedges /\ word \in {"suggest", "tend", "appear"} -> 2
      [] line = LineHedges /\ word \in
           {"approximately", "roughly", "about", "suggests", "suggested", "may", "might",
            "could", "would", "possibly", "perhaps", "probably", "relatively", "somewhat",
            "fairly", "rather", "tends", "tended", "appears", "appeared", "seem", "seems",
            "indicates", "indicated"} -> 1
      [] OTHER -> 0

\* text.lower().count(word): no term holds a newline
TextCount(text, word) == SumSeq([i \in 1..Len(text) |-> LineCount(text[i], word)])

\* for word in self.HEDGING_TERMS: if count > 0: all_hedging[word] += count
AddHedging(all_hedging, text, order) ==
    LET found == {n \in 1..Len(order) : order[n] \in HEDGING_TERMS /\ TextCount(text, order[n]) > 0}
    IN  DictMerge(all_hedging,
                  [m \in 1..Cardinality(found) |->
                      [k |-> order[IndexSeq(found)[m]],
                       v |-> TextCount(text, order[IndexSeq(found)[m]])]])

\* all_nouns = Counter() ... passive_ratios = []
NoCounts ==
    [all_nouns |-> <<>>, all_verbs |-> <<>>, all_adjectives |-> <<>>, all_adverbs |-> <<>>,
     all_prepositions |-> <<>>, all_hedging |-> <<>>, all_tense |-> <<>>,
     all_transitions |-> <<>>, all_conjunctions |-> <<>>, all_sentence_lengths |-> <<>>,
     passive_ratios |-> <<>>]

\* all_tense[section_key].append(tense)
AppendTense(all_tense, section, tense) ==
    IF \E n \in 1..Len(all_tense) : all_tense[n].k = section
    THEN [n \in 1..Len(all_tense) |->
             IF all_tense[n].k = section
             THEN [k |-> section, v |-> Append(all_tense[n].v, tense)] ELSE all_tense[n]]
    ELSE Append(all_tense, [k |-> section, v |-> <<tense>>])

\* the body of "for section, text in sections.items()" for a text that is not blank;
\* analysis has no key "prepositions" and no key "passive_ratio"
AggregateSection(acc, section, text, analysis, order) ==
    [all_nouns        |-> DictMerge(acc.all_nouns, Get(analysis, "nouns", <<>>)),
     all_verbs        |-> DictMerge(acc.all_verbs, Get(analysis, "verbs", <<>>)),
     all_adjectives   |-> DictMerge(acc.all_adjectives, Get(analysis, "adjectives", <<>>)),
     all_adverbs      |-> DictMerge(acc.all_adverbs, Get(analysis, "adverbs", <<>>)),
     all_prepositions |-> DictMerge(acc.all_prepositions, Get(analysis, "prepositions", <<>>)),
     all_hedging      |-> AddHedging(acc.all_hedging, text, order),
     all_tense        |-> IF Get(analysis, "tense_distribution", <<>>) # <<>>
                          THEN AppendTense(acc.all_tense, section,
                                           Get(analysis, "tense_distribution", <<>>))
                          ELSE acc.all_tense,
     all_transitions  |-> DictMerge(acc.all_transitions, Get(analysis, "transition_counts", <<>>)),
     all_conjunctions |-> DictMerge(acc.all_conjunctions,
                                    Get(analysis, "conjunction_counts", <<>>)),
     all_sentence_lengths |->
        Append(acc.all_sentence_lengths, Get(analysis, "avg_sentence_length", FZero)),
     passive_ratios   |-> Append(acc.passive_ratios, Get(analysis, "passive_ratio", FZero))]

\* for section, text in sections.items(): if not text.strip(): continue ...
\* (fails holds <<s, i, j>> when self.nlp raises on call <<i, j>> for the s-th section)
RECURSIVE AggregateSections(_, _, _, _, _)
AggregateSections(acc, sections, s, order, fails) ==
    IF s > Len(sections) THEN acc
    ELSE AggregateSections(
             IF IsBlank(sections[s].v) THEN acc
             ELSE AggregateSection(acc, sections[s].k, sections[s].v,
                      analyze_text(sections[s].v,
                                   {<<f[2], f[3]>> : f \in {g \in fails : g[1] = s}}),
                      order),
             sections, s + 1, order, fails)

\* analysis = self.analyze_text(text, section), for every section that is not blank
RECURSIVE SectionAnalyses(_, _, _)
SectionAnalyses(sections, s, fails) ==
    IF s > Len(sections) THEN <<>>
    ELSE (IF IsBlank(sections[s].v) THEN <<>>
          ELSE <<[k |-> sections[s].k,
                  text |-> sections[s].v,
                  v |-> analyze_text(sections[s].v,
                                     {<<f[2], f[3]>> : f \in {g \in fails : g[1] = s}})]>>)
         \o SectionAnalyses(sections, s + 1, fails)

\* the calls of self.nlp that the loop over the sections can make
SectionNlpCalls(sections) ==
    UNION {{<<s, c[1], c[2]>> : c \in NlpCalls(sections[s].v)} :
              s \in {n \in 1..Len(sections) : ~IsBlank(sections[n].v)}}

\* the sets of calls that can raise: a sub-chunk is tried only after its chunk failed
FailurePatterns(sections) ==
    {fails \in SUBSET SectionNlpCalls(sections) :
        \A f \in fails : f[3] > 0 => <<f[1], f[2], 0>> \in fails}

TopNouns == 50

TopVerbs == 30

TopAdjectives == 40

TopAdverbs == 40

TopPrepositions == 40

TopHedging == 20

\* round(x, 2) for a float 0 <= x < 2048: the exact value times 100 is rounded to an
\* integer k, ties to even, and the result is the float nearest to k / 100.  With
\* M the significand, 100 * M is written in base 2^14 and shifted right by 52 - e.
Round2(x) ==
    IF IsFZero(x) \/ x.e < -20 THEN FZero
    ELSE LET c0 == (x.lo % DigitBase) * 100
             c1 == (x.lo \div DigitBase) * 100 + (c0 \div DigitBase)
             c2 == (x.hi % DigitBase) * 100 + (c1 \div DigitBase)
             c3 == (x.hi \div DigitBase) * 100 + (c2 \div DigitBase)
             U  == c3                       \* 100 * M = U * 2^42 + V * 2^28 + W
             V  == c2 % DigitBase
             W  == (c1 % DigitBase) * DigitBase + (c0 % DigitBase)
             t  == 10 - x.e                 \* 100 * x = 100 * M / 2^(42 + t)
             k0 == U \div 2^t
             half == IF t = 0 THEN V \div 2^13 ELSE (U \div 2^(t - 1)) % 2
             sticky == IF t = 0 THEN V % 2^13 # 0 \/ W # 0
                       ELSE U % 2^(t - 1) # 0 \/ V # 0 \/ W # 0
             k  == IF half = 1 /\ (sticky \/ k0 % 2 = 1) THEN k0 + 1 ELSE k0
         IN  FromRatio(k, 100)

\* avg_pcts: round(sum(p[tense] for p in pcts) / len(pcts), 2) for past, present, future
TenseAverages(pcts) ==
    [past    |-> Round2(FMean([n \in 1..Len(pcts) |-> pcts[n].past])),
     present |-> Round2(FMean([n \in 1..Len(pcts) |-> pcts[n].present])),
     future  |-> Round2(FMean([n \in 1..Len(pcts) |-> pcts[n].future]))]

\* report.transition_words[cat] = [(cat, count)]
CategoryPairs(counts) ==
    [n \in 1..Len(counts) |-> [k |-> counts[n].k, v |-> <<counts[n]>>]]

\* report = JournalStyleReport() ... return report (without the date of the run)
Report(acc, paper_paths) ==
    LET avg_length  == IF acc.all_sentence_lengths # <<>>
                       THEN FMean(acc.all_sentence_lengths) ELSE FZero
        avg_passive == IF acc.passive_ratios # <<>> THEN FMean(acc.passive_ratios) ELSE FZero
    IN  [papers_analyzed |-> Len(paper_paths),
         citation_style  |-> DefaultStyle,
         high_frequency_nouns      |-> MostCommon(acc.all_nouns, TopNouns),
         high_frequency_verbs      |-> MostCommon(acc.all_verbs, TopVerbs),
         high_frequency_adjectives |-> MostCommon(acc.all_adjectives, TopAdjectives),
         high_frequency_adverbs    |-> MostCommon(acc.all_adverbs, TopAdverbs),
         prepositions  |-> MostCommon(acc.all_prepositions, TopPrepositions),
         hedging_terms |-> MostCommon(acc.all_hedging, TopHedging),
         tense_distribution |->
            [n \in 1..Len(acc.all_tense) |->
                [k |-> acc.all_tense[n].k, v |-> TenseAverages(acc.all_tense[n].v)]],
         transition_words   |-> CategoryPairs(acc.all_transitions),
         conjunctions       |-> CategoryPairs(acc.all_conjunctions),
         sentence_structure |->
            [average_sentence_length |-> Round2(avg_length),
             passive_voice_ratio     |-> Round2(avg_passive),
             papers_analyzed         |-> Len(paper_paths)],
         sentence_length_distribution |-> <<>>,
         sentence_types               |-> <<>>]

CorpusInit ==
    /\ OthersIdle("corpus")
    /\ cp_papers \in UNION {[1..n -> Papers] : n \in 0..MaxPapers}
    /\ cp_order \in HedgingOrders
    /\ cp_i = 1
    /\ cp_sections = <<>>
    /\ cp_analyses = <<>>
    /\ cp_acc = NoCounts
    /\ cp_errors = 0
    /\ cp_report = <<>>
    /\ cp_pc = "loop"

\* what the call leaves: the exception goes up through analyze_papers, which has no
\* handler, or the sections are kept for the loop over them
CallOutcome(out, lines) ==
    IF out.raised THEN cp_pc' = "raised" /\ UNCHANGED cp_sections
    ELSE cp_pc' = "sections" /\ cp_sections' = SectionTexts(out.sections, lines)

\* for paper_path in paper_paths: sections = self.extract_text_from_pdf(paper_path)
ReadPaper ==
    /\ cp_pc = "loop"
    /\ cp_i <= Len(cp_papers)
    /\ CallOutcome(ExtractPaper(cp_papers[cp_i]),
                   full_text(PaperSuffix(cp_papers[cp_i]), PaperLines(cp_papers[cp_i])))
    /\ UNCHANGED <<cp_papers, cp_order, cp_i, cp_analyses, cp_acc, cp_errors, cp_report, ck_vars, mg_vars, cs_vars, sc_vars, pd_vars, tx_vars, st_vars, dc_vars>>

\* for section, text in sections.items(): ... for the paper just read
AnalyzeSections ==
    /\ cp_pc = "sections"
    /\ \E fails \in FailurePatterns(cp_sections) :
         /\ cp_acc' = AggregateSections(cp_acc, cp_sections, 1, cp_order, fails)
         /\ cp_analyses' = cp_analyses \o SectionAnalyses(cp_sections, 1, fails)
         /\ cp_errors' = cp_errors + Cardinality(fails)
    /\ cp_i' = cp_i + 1
    /\ cp_sections' = <<>>
    /\ cp_pc' = "loop"
    /\ UNCHANGED <<cp_papers, cp_order, cp_report, ck_vars, mg_vars, cs_vars, sc_vars, pd_vars, tx_vars, st_vars, dc_vars>>

\* after the loop: the report is filled in and returned
BuildReport ==
    /\ cp_pc = "loop"
    /\ cp_i > Len(cp_papers)
    /\ cp_report' = Report(cp_acc, cp_papers)
    /\ cp_pc' = "done"
    /\ UNCHANGED <<cp_papers, cp_order, cp_i, cp_sections, cp_analyses, cp_acc, cp_errors, ck_vars, mg_vars, cs_vars, sc_vars, pd_vars, tx_vars, st_vars, dc_vars>>

(***************************************************************************)
(* analyze_text, step by step: the loop over the chunks, the tagger call   *)
(* that can raise on any chunk, and the retry over smaller chunks.         *)
(***************************************************************************)
\* the lines of the sample texts; LineFiveK holds 5000 words and stands only where a
\* sub-chunk of 5000 words starts, so that no line is cut by _create_smaller_chunks
TextLines == {LineBlank, LineResults, LinePhoto, LineHuge, LineGene}

Texts ==
    UNION {[1..n -> TextLines] : n \in 0..MaxTextLines}
    \cup {<<LineFiveK, LinePhoto>>, <<LineFiveK, LineFiveK>>, <<LineFiveK, LineBlank, LinePhoto>>,
          <<LinePassive>>, <<LinePassive, LineBlank, LineHuge>>,
          <<LineHuge, LineBlank, LinePassive, LineBlank, LineHuge>>}

TextInit ==
    /\ OthersIdle("text")
    /\ tx_text \in Texts
    /\ tx_chunks = <<>>
    /\ tx_i = 0
    /\ tx_smaller = <<>>
    /\ tx_j = 0
    /\ tx_merged = <<>>
    /\ tx_calls = <<>>
    /\ tx_pc = "call"

\* a call of self.nlp: on chunk i (j = 0) or on sub-chunk j of chunk i, and whether
\* it returned a doc
NlpCall(i, j, ok) == [i |-> i, j |-> j, ok |-> ok]

\* if not text.strip(): return {} ... chunks ... merged_result = {...}
SplitText ==
    /\ tx_pc = "call"
    /\ IF IsBlank(tx_text)
       THEN /\ tx_merged' = EmptyDict
            /\ tx_pc' = "done"
            /\ UNCHANGED <<tx_chunks, tx_i>>
       ELSE /\ tx_chunks' = text_chunks(tx_text)
            /\ tx_merged' = merged_result
            /\ tx_i' = 1
            /\ tx_pc' = "chunk"
    /\ UNCHANGED <<tx_text, tx_smaller, tx_j, tx_calls, ck_vars, mg_vars, cs_vars, sc_vars, pd_vars, cp_vars, st_vars, dc_vars>>

\* mutant: the chunk is merged twice
TagChunkTwice ==
    /\ tx_pc = "chunk"
    /\ tx_i <= Len(tx_chunks)
    /\ tx_merged' = _merge_chunk_results(
                        _merge_chunk_results(tx_merged, _analyze_chunk(nlp(tx_chunks[tx_i]))),
                        _analyze_chunk(nlp(tx_chunks[tx_i])))
    /\ tx_calls' = Append(tx_calls, NlpCall(tx_i, 0, TRUE))
    /\ tx_i' = tx_i + 1
    /\ UNCHANGED <<tx_text, tx_chunks, tx_smaller, tx_j, tx_pc, ck_vars, mg_vars, cs_vars, sc_vars, pd_vars, cp_vars, st_vars, dc_vars>>

\* try: doc = self.nlp(chunk); chunk_result = self._analyze_chunk(doc, section);
\* self._merge_chunk_results(merged_result, chunk_result)
TagChunk ==
    /\ tx_pc = "chunk"
    /\ tx_i <= Len(tx_chunks)
    /\ tx_merged' = _merge_chunk_results(tx_merged, _analyze_chunk(nlp(tx_chunks[tx_i])))
    /\ tx_calls' = Append(tx_calls, NlpCall(tx_i, 0, TRUE))
    /\ tx_i' = tx_i + 1
    /\ UNCHANGED <<tx_text, tx_chunks, tx_smaller, tx_j, tx_pc, ck_vars, mg_vars, cs_vars, sc_vars, pd_vars, cp_vars, st_vars, dc_vars>>

\* except Exception: if len(chunk) > 10000: smaller_chunks = self._create_smaller_chunks(chunk, 5000)
\* ... continue
ChunkFails ==
    /\ tx_pc = "chunk"
    /\ tx_i <= Len(tx_chunks)
    /\ tx_calls' = Append(tx_calls, NlpCall(tx_i, 0, FALSE))
    /\ IF TextLen(tx_chunks[tx_i]) > RetryAbove
       THEN /\ tx_smaller' = _create_smaller_chunks(tx_chunks[tx_i], SmallerChunkSize)
            /\ tx_j' = 1
            /\ tx_pc' = "smaller"
            /\ UNCHANGED tx_i
       ELSE /\ tx_i' = tx_i + 1
            /\ UNCHANGED <<tx_smaller, tx_j, tx_pc>>
    /\ UNCHANGED <<tx_text, tx_chunks, tx_merged, ck_vars, mg_vars, cs_vars, sc_vars, pd_vars, cp_vars, st_vars, dc_vars>>

\* for smaller_chunk in smaller_chunks: the step to the next sub-chunk, or back to
\* the loop over the chunks after the last one
NextSmaller ==
    IF tx_j < Len(tx_smaller)
    THEN tx_j' = tx_j + 1 /\ UNCHANGED <<tx_i, tx_smaller, tx_pc>>
    ELSE tx_j' = 0 /\ tx_i' = tx_i + 1 /\ tx_smaller' = <<>> /\ tx_pc' = "chunk"

\* try: doc = self.nlp(smaller_chunk); ...; self._merge_chunk_results(merged_result, chunk_result)
TagSmaller ==
    /\ tx_pc = "smaller"
    /\ tx_merged' = _merge_chunk_results(tx_merged, _analyze_chunk(nlp(tx_smaller[tx_j])))
    /\ tx_calls' = Append(tx_calls, NlpCall(tx_i, tx_j, TRUE))
    /\ NextSmaller
    /\ UNCHANGED <<tx_text, tx_chunks, ck_vars, mg_vars, cs_vars, sc_vars, pd_vars, cp_vars, st_vars, dc_vars>>

\* except Exception as e2: continue
SmallerFails ==
    /\ tx_pc = "smaller"
    /\ tx_calls' = Append(tx_calls, NlpCall(tx_i, tx_j, FALSE))
    /\ NextSmaller
    /\ UNCHANGED <<tx_text, tx_chunks, tx_merged, ck_vars, mg_vars, cs_vars, sc_vars, pd_vars, cp_vars, st_vars, dc_vars>>

\* return merged_result
ReturnText ==
    /\ tx_pc = "chunk"
    /\ tx_i > Len(tx_chunks)
    /\ tx_pc' = "done"
    /\ UNCHANGED <<tx_text, tx_chunks, tx_i, tx_smaller, tx_j, tx_merged, tx_calls, ck_vars, mg_vars, cs_vars, sc_vars, pd_vars, cp_vars, st_vars, dc_vars>>

(***************************************************************************)
(* _merge_citation_styles: the corpus-level citation style.                *)
(***************************************************************************)
CitationTypes == {"numbered", "author-year"}

ReferenceFormats == {"nature", "apa", "vancouver", "ieee"}

\* styles that analyze_citation_style returns: a type with an example of its kind and
\* a reference format, or the defaults for a file that is not read
StyleSamples ==
    {[DefaultStyle EXCEPT !.citation_type = t, !.reference_format = f,
                          !.example_in_text_citation =
                              IF t = "numbered" THEN "[1]" ELSE "(Smith, 2020)"] :
        t \in CitationTypes, f \in ReferenceFormats}
    \cup {DefaultStyle}

\* the first non-empty value of a field among the styles, "" when there is none
FirstNonEmpty(styles, field) ==
    LET filled == {i \in 1..Len(styles) : styles[i][field] # ""}
    IN  IF filled = {} THEN "" ELSE styles[Least(filled)][field]

\* Counter([...]).most_common(1)[0][0] over a field of the styles
MostCommonValue(styles, field) ==
    MostCommon(CounterOf([i \in 1..Len(styles) |-> styles[i][field]]), 1)[1].k

_merge_citation_styles(styles) ==
    IF styles = <<>> THEN DefaultStyle
    ELSE [DefaultStyle EXCEPT
            !.citation_type = MostCommonValue(styles, "citation_type"),
            !.reference_format = MostCommonValue(styles, "reference_format"),
            !.latex_citation_command = "\\citep",
            !.example_in_text_citation = FirstNonEmpty(styles, "example_in_text_citation"),
            !.example_reference = FirstNonEmpty(styles, "example_reference")]

StylesInit ==
    /\ OthersIdle("styles")
    /\ st_styles \in UNION {[1..n -> StyleSamples] : n \in 0..MaxStyles}
    /\ st_merged = <<>>
    /\ st_pc = "input"

\* report.citation_style = self._merge_citation_styles(citation_styles)
MergeCitationStyles ==
    /\ st_pc = "input"
    /\ st_merged' = _merge_citation_styles(st_styles)
    /\ st_pc' = "done"
    /\ UNCHANGED <<st_styles, ck_vars, mg_vars, cs_vars, sc_vars, pd_vars, cp_vars, tx_vars, dc_vars>>

(***************************************************************************)
(* DraftIntegrator.check_data_consistency.  sections is a dict: a sequence *)
(* of [k |-> section, v |-> content] with distinct keys, in insertion      *)
(* order.  The contents are sample sentences; re.findall on a content is   *)
(* the table of what the pattern finds in that sentence.                   *)
(***************************************************************************)
MaxSections == 3

ContentCollected == "We collected n=100 samples..."

ContentTotal == "A total of n=100 samples were collected..."

ContentAnalysis == "Analysis of n=98 samples showed..."

ContentMixed == "Of n = 100 plants, n=98 survived and n: 98 flowered (p < 0.05, Table 2)."

ContentFigures == "No counts here (Figure 1, Figure 2; p=0.01)."

ContentMean == "The mean=12 differed from the median: 3."

Contents ==
    {ContentCollected, ContentTotal, ContentAnalysis, ContentMixed, ContentFigures, ContentMean, ""}

SectionKeys == {"introduction", "methods", "results"}

\* re.findall(r"n\s*[=:]\s*(\d+)", content): the digits of every match, in order
SampleMatches(content) ==
    CASE content = ContentCollected -> <<"100">>
      [] content = ContentTotal -> <<"100">>
      [] content = ContentAnalysis -> <<"98">>
      [] content = ContentMixed -> <<"100", "98", "98">>
      [] content = ContentMean -> <<"12", "3">>
      [] OTHER -> <<>>

\* re.findall(r"p\s*[<>=]\s*[\d.]+", content)
PValueMatches(content) ==
    CASE content = ContentMixed -> <<"p < 0.05">>
      [] content = ContentFigures -> <<"p=0.01">>
      [] OTHER -> <<>>

\* re.findall(rf"{term}\s*\d+", content)
TermMatches(term, content) ==
    CASE term = "Table" /\ content = ContentMixed -> <<"Table 2">>
      [] term = "Figure" /\ content = ContentFigures -> <<"Figure 1", "Figure 2">>
      [] OTHER -> <<>>

\* section.capitalize()
Capitalize(section) ==
    CASE section = "introduction" -> "Introduction"
      [] section = "methods" -> "Methods"
      [] section = "results" -> "Results"

\* ", ".join(values)
RECURSIVE JoinComma(_)
JoinComma(values) ==
    IF values = <<>> THEN ""
    ELSE IF Len(values) = 1 THEN values[1]
    ELSE values[1] \o ", " \o JoinComma(Tail(values))

\* matches.count(value)
CountOf(matches, value) == Cardinality({i \in 1..Len(matches) : matches[i] = value})

\* the orders in which set(matches) can be iterated: the order of a set of strings
\* is fixed by their hashes, which differ from one run of the interpreter to the next
SetOrders(matches) ==
    LET values == {matches[i] : i \in 1..Len(matches)}
    IN  {o \in [1..Cardinality(values) -> values] : {o[i] : i \in 1..Len(o)} = values}

\* max(set(matches), key=matches.count): the first of the values, in the order of the
\* set, that no other value outnumbers
MaxByCount(order, matches) ==
    LET best == CHOOSE i \in 1..Len(order) :
                    /\ \A j \in 1..Len(order) :
                          CountOf(matches, order[j]) <= CountOf(matches, order[i])
                    /\ \A j \in 1..(i - 1) :
                          CountOf(matches, order[j]) < CountOf(matches, order[i])
    IN  order[best]

\* the ConsistencyIssue appended for a section (the description repeats original_value
\* after a fixed text)
SampleIssue(section, order, matches, strict_mode) ==
    [type            |-> "numerical",
     severity        |-> IF strict_mode THEN "critical" ELSE "warning",
     location        |-> Capitalize(section),
     original_value  |-> JoinComma(order),
     suggested_value |-> MaxByCount(order, matches),
     auto_fixed      |-> ~strict_mode]

\* the first loop: the issues, given the order of set(matches) for each section
RECURSIVE SampleIssues(_, _, _, _)
SampleIssues(sections, s, orders, strict_mode) ==
    IF s > Len(sections) THEN <<>>
    ELSE LET matches == SampleMatches(sections[s].v)
         IN  (IF Len(orders[s]) > 1
              THEN <<SampleIssue(sections[s].k, orders[s], matches, strict_mode)>>
              ELSE <<>>)
             \o SampleIssues(sections, s + 1, orders, strict_mode)

\* stats["sample_size_mentions"]: one entry for every section with a match
SampleMentions(sections, orders) ==
    Pick([s \in 1..Len(sections) |-> [section |-> sections[s].k, values |-> orders[s]]],
         {s \in 1..Len(sections) : SampleMatches(sections[s].v) # <<>>})

\* matches[:5]
FirstFive(matches) == SubSeq(matches, 1, IF Len(matches) < 5 THEN Len(matches) ELSE 5)

\* stats["statistical_values"]
StatisticalValues(sections) ==
    Pick([s \in 1..Len(sections) |->
             [section |-> sections[s].k, values |-> FirstFive(PValueMatches(sections[s].v))]],
         {s \in 1..Len(sections) : PValueMatches(sections[s].v) # <<>>})

\* stats["terminology_occurrences"][term] = matches: the last section with a match stays
RECURSIVE TermOccurrences(_, _, _, _)
TermOccurrences(sections, s, term, acc) ==
    IF s > Len(sections) THEN acc
    ELSE TermOccurrences(sections, s + 1, term,
             IF TermMatches(term, sections[s].v) # <<>>
             THEN DictSet(acc, term, TermMatches(term, sections[s].v))
             ELSE acc)

TerminologyOccurrences(sections) ==
    TermOccurrences(sections, 1, "Figure", TermOccurrences(sections, 1, "Table", <<>>))

\* dicts of at most MaxSections sections
SectionDicts ==
    UNION {{d \in [1..n -> [k : SectionKeys, v : Contents]] :
              \A i, j \in 1..n : d[i].k = d[j].k => i = j} : n \in 0..MaxSections}

ConsistencyInit ==
    /\ OthersIdle("consistency")
    /\ dc_sections \in SectionDicts
    /\ dc_strict \in BOOLEAN
    /\ dc_issues = <<>>
    /\ dc_stats = <<>>
    /\ dc_pc = "input"

\* issues, stats = integrator.check_data_consistency(sections, strict_mode)
CheckDataConsistency ==
    /\ dc_pc = "input"
    /\ \E orders \in {o \in [1..Len(dc_sections) ->
                                UNION {SetOrders(SampleMatches(c)) : c \in Contents}] :
                        \A s \in 1..Len(dc_sections) :
                            o[s] \in SetOrders(SampleMatches(dc_sections[s].v))} :
         /\ dc_issues' = SampleIssues(dc_sections, 1, orders, dc_strict)
         /\ dc_stats' = [sample_size_mentions    |-> SampleMentions(dc_sections, orders),
                         statistical_values      |-> StatisticalValues(dc_sections),
                         terminology_occurrences |-> TerminologyOccurrences(dc_sections)]
    /\ dc_pc' = "done"
    /\ UNCHANGED <<dc_sections, dc_strict, ck_vars, mg_vars, cs_vars, sc_vars, pd_vars, cp_vars,
                   tx_vars, st_vars>>

(***************************************************************************)
(* Specifications, one per component.                                      *)
(***************************************************************************)
SpecChunk == ChunkInit /\ [][ChunkCall \/ AnalyzeTextSplit]_vars

SpecMerge == MergeInit /\ [][AnalyzeChunks \/ MergeSection \/ MergeReordered \/ MergeNested]_vars

SpecCite == CiteInit /\ [][AnalyzeCitationStyle]_vars

SpecSections == SectionsInit /\ [][ExtractSections]_vars

SpecPdf == PdfInit /\ [][ExtractTextFromPdf]_vars

SpecCorpus == CorpusInit /\ [][ReadPaper \/ AnalyzeSections \/ BuildReport]_vars

SpecText == TextInit /\ [][SplitText \/ TagChunk \/ ChunkFails \/ TagSmaller \/ SmallerFails \/ ReturnText]_vars

SpecStyles == StylesInit /\ [][MergeCitationStyles]_vars

SpecConsistency == ConsistencyInit /\ [][CheckDataConsistency]_vars

(***************************************************************************)
(* Properties.                                                             *)
(***************************************************************************)
ChunkDone == ck_pc \in {"chunked", "split"}

\* the paragraphs of a text that hold a non-blank character, each stripped
RECURSIVE NonBlankStripped(_)
NonBlankStripped(paragraphs) ==
    IF paragraphs = <<>> THEN <<>>
    ELSE IF Strip(Head(paragraphs)) = <<>> THEN NonBlankStripped(Tail(paragraphs))
    ELSE <<Strip(Head(paragraphs))>> \o NonBlankStripped(Tail(paragraphs))

\* C3: every returned chunk has length <= max_chars, except a chunk that is one
\* single paragraph of the input (stripped) which is itself longer than max_chars.
C3_ChunkBounded ==
    ChunkDone =>
        \A i \in 1..Len(ck_chunks) :
            \/ Len(ck_chunks[i]) <= ck_max
            \/ /\ Len(SplitParagraphs(ck_chunks[i])) = 1
               /\ \E j \in 1..Len(SplitParagraphs(ck_text)) :
                    /\ Strip(SplitParagraphs(ck_text)[j]) = ck_chunks[i]
                    /\ Len(SplitParagraphs(ck_text)[j]) > ck_max

\* C3 witness: a split into several chunks, one of them an oversized paragraph
\* and another one within the bound.
C3_Witness ==
    /\ ChunkDone
    /\ Len(ck_chunks) >= 2
    /\ \E i \in 1..Len(ck_chunks) : Len(ck_chunks[i]) > ck_max
    /\ \E i \in 1..Len(ck_chunks) : Len(ck_chunks[i]) <= ck_max

SameCounts(a, b) ==
    /\ \A c \in Categories : DictEq(a.vocabulary[c], b.vocabulary[c])
    /\ a.sentence_structure.sentence_count = b.sentence_structure.sentence_count
    /\ a.sentence_structure.total_tokens = b.sentence_structure.total_tokens
    /\ a.stylistic_features.token_count = b.stylistic_features.token_count

\* the averaged fields of two merged FeatureSets are the same floats
SameRatios(a, b) ==
    /\ a.sentence_structure.avg_sentence_length = b.sentence_structure.avg_sentence_length
    /\ a.stylistic_features.passive_voice_ratio = b.stylistic_features.passive_voice_ratio

\* two floats at most eight units in the last place apart
FNear(x, y) == (FLeq(x, y) /\ FLeq(y, FSuccN(x, 8))) \/ (FLeq(y, x) /\ FLeq(x, FSuccN(y, 8)))

CloseRatios(a, b) ==
    /\ FNear(a.sentence_structure.avg_sentence_length, b.sentence_structure.avg_sentence_length)
    /\ FNear(a.stylistic_features.passive_voice_ratio, b.stylistic_features.passive_voice_ratio)

\* C5 as stated: for every ordering of the chunk FeatureSets the merge returns the
\* same FeatureSet, the summed counts and the averaged ratios being exactly equal.
C5_MergeCommutesExactly ==
    mg_pc = "reordered" => SameCounts(mg_merged, mg_alt) /\ SameRatios(mg_merged, mg_alt)

\* C5 amended: for every ordering of the chunk FeatureSets the merge returns exactly
\* the same summed counts, and averaged ratios that agree within floating-point
\* rounding (a few units in the last place).
C5_MergeCommutes ==
    mg_pc = "reordered" => SameCounts(mg_merged, mg_alt) /\ CloseRatios(mg_merged, mg_alt)

\* C5 witness: three chunks merged in reversed order, with an averaged ratio that
\* differs in its last bits from the one of the original order.
C5_Witness ==
    /\ mg_pc = "reordered"
    /\ Len(mg_results) = 3
    /\ mg_order = <<3, 2, 1>>
    /\ mg_merged.vocabulary["nouns"] # <<>>
    /\ ~SameRatios(mg_merged, mg_alt)

\* C6: merging the already-merged result of the first chunks with the remaining
\* ones yields the same FeatureSet as merging all chunks in one step: the same
\* summed counts, and the same averaged ratios (up to floating-point rounding).
C6_MergeAssociates ==
    mg_pc = "nested" => SameCounts(mg_merged, mg_alt) /\ CloseRatios(mg_merged, mg_alt)

\* C7: for a file whose text is read, citation_type is "numbered" whenever the
\* matches of the four numbered shapes outnumber those of the five author-year
\* shapes, and "author-year" whenever the author-year matches are the more numerous.
C7_MajorityFamilyWins ==
    (cs_pc = "done" /\ Readable(cs_suffix)) =>
        /\ numbered_count(cs_lines) > author_year_count(cs_lines)
              => cs_style.citation_type = "numbered"
        /\ author_year_count(cs_lines) > numbered_count(cs_lines)
              => cs_style.citation_type = "author-year"

\* C7 witness: a text with ten citations like [12] and two like (Smith, 2020),
\* reported as numbered.
C7_Witness ==
    /\ cs_pc = "done"
    /\ Readable(cs_suffix)
    /\ numbered_count(cs_lines) = 10
    /\ author_year_count(cs_lines) = 2
    /\ cs_style.citation_type = "numbered"

\* C1: the returned sections occupy pairwise non-overlapping ranges of the text: of
\* two returned sections, the one that starts first (or at the same offset) ends at
\* or before the start of the other, and no kind is returned twice.
C1_SectionsDisjoint ==
    sc_pc = "done" =>
        \A a, b \in 1..Len(sc_sections) :
            a # b =>
                /\ sc_sections[a].k # sc_sections[b].k
                /\ sc_sections[a].v.from <= sc_sections[b].v.from
                      => sc_sections[a].v.to <= sc_sections[b].v.from

\* lines i+1 .. j-1 are ordinary body text of at least 50 characters
BodyBetween(lines, i, j) ==
    /\ \A m \in (i + 1)..(j - 1) : lines[m] \in {LineBody60, LineBody42, LineBlank}
    /\ SumSeq([m \in 1..(j - i - 1) |-> Len(lines[i + m])]) >= 50

\* C2: when a "Results" heading is followed by at least 50 characters of body and
\* then a "Discussion" heading, a 'results' entry is returned whose text begins
\* after the "Results" heading and ends before the "Discussion" heading.
C2_ResultsBetweenHeadings ==
    sc_pc = "done" =>
        \A i, j \in 1..Len(sc_lines) :
            (/\ i < j
             /\ sc_lines[i] = LineResults
             /\ sc_lines[j] = LineDiscussion
             /\ BodyBetween(sc_lines, i, j))
            => /\ "results" \in DictKeys(sc_sections)
               /\ DictGet(sc_sections, "results", 0).from
                     >= LineStart(sc_lines, i) + Len(LineResults)
               /\ DictGet(sc_sections, "results", 0).to <= LineStart(sc_lines, j)

\* C8: when a line holding the numbered references header "[1] References" follows
\* the start of the conclusion that extract_text_from_pdf found, the returned
\* conclusion ends before that header: it holds nothing from the header onward.
C8_ConclusionEndsBeforeNumberedHeader ==
    (pd_pc = "done" /\ "conclusion" \in DictKeys(pd_out.sections)) =>
        \A j \in 1..Len(pd_lines) :
            (/\ pd_lines[j] = LineNumberedReferences
             /\ LineStart(pd_lines, j) > DictGet(pd_out.sections, "conclusion", EmptyText).from)
            => DictGet(pd_out.sections, "conclusion", EmptyText).to <= LineStart(pd_lines, j)

\* a conclusion whose match ran past the numbered header on the very next line after
\* its body and that the post-processing cut back to the body
C8_Witness ==
    /\ pd_pc = "done"
    /\ "conclusion" \in DictKeys(pd_out.sections)
    /\ \E j \in 3..Len(pd_lines) :
        /\ pd_lines[j] = LineNumberedReferences
        /\ pd_lines[j - 1] # ""
        /\ DictGet(sections_before_truncation(pd_suffix, pd_lines), "conclusion", EmptyText).to
               > LineStart(pd_lines, j)
        /\ DictGet(pd_out.sections, "conclusion", EmptyText).to = LineStart(pd_lines, j) - 1
        /\ DictGet(pd_out.sections, "conclusion", EmptyText).from < LineStart(pd_lines, j - 1)

\* the section texts that extract_text_from_pdf gives for a paper
PaperTexts(paper) ==
    LET sections == SectionTexts(ExtractPaper(paper).sections,
                                 full_text(PaperSuffix(paper), PaperLines(paper)))
    IN  [s \in 1..Len(sections) |-> sections[s].v]

\* every occurrence of a noun in the texts, as _analyze_chunk lists them before it
\* keeps the most common ones
RECURSIVE SectionNouns(_, _)
SectionNouns(texts, counts) ==
    IF texts = <<>> THEN counts
    ELSE SectionNouns(Tail(texts),
                      DictMerge(counts, CounterOf(SurfaceWords(nlp(Head(texts)), "NOUN"))))

RECURSIVE CorpusNouns(_, _)
CorpusNouns(papers, counts) ==
    IF papers = <<>> THEN counts
    ELSE CorpusNouns(Tail(papers), SectionNouns(PaperTexts(Head(papers)), counts))

\* C9: when analyze_papers returns and no tagger call failed, a noun that occurs n
\* times in total across the section texts of the corpus and is among the 50 most
\* frequent nouns is reported in high_frequency_nouns with count exactly n.
C9_NounCountsAreTotals ==
    (cp_pc = "done" /\ cp_errors = 0) =>
        LET totals == CorpusNouns(cp_papers, <<>>)
        IN  \A i \in 1..Len(totals) :
                Cardinality({j \in 1..Len(totals) : totals[j].v > totals[i].v}) < TopNouns
                => DictGet(cp_report.high_frequency_nouns, totals[i].k, 0) = totals[i].v

\* a document that the run can analyze: it is read without an exception and one of
\* its section texts is not blank
Analyzable(paper) ==
    /\ ~ExtractPaper(paper).raised
    /\ \E s \in 1..Len(PaperTexts(paper)) : ~IsBlank(PaperTexts(paper)[s])

\* C10: a document whose processing raises is skipped and the remaining documents
\* are still processed: analyze_papers raises to its caller only when no document
\* of the corpus is analyzable.
C10_RaisesOnlyWithoutAnalyzable ==
    cp_pc = "raised" => \A i \in 1..Len(cp_papers) : ~Analyzable(cp_papers[i])

\* the calls of self.nlp made for chunk i, sub-chunk j
CallsOf(i, j) == {n \in 1..Len(tx_calls) : tx_calls[n].i = i /\ tx_calls[n].j = j}

\* C11: when analyze_text has returned, every chunk on which the tagger raised,
\* whatever its size, was split again by _create_smaller_chunks(chunk, 5000) and every
\* sub-chunk of it was handed to the tagger exactly once.
C11_EveryFailedChunkRetried ==
    tx_pc = "done" =>
        \A n \in 1..Len(tx_calls) :
            (tx_calls[n].j = 0 /\ ~tx_calls[n].ok) =>
                LET smaller == _create_smaller_chunks(tx_chunks[tx_calls[n].i], SmallerChunkSize)
                IN  /\ smaller # <<>>
                    /\ \A j \in 1..Len(smaller) : Cardinality(CallsOf(tx_calls[n].i, j)) = 1

\* the text of the n-th call: the chunk, or the sub-chunk of the retry
CallText(call) ==
    IF call.j = 0 THEN tx_chunks[call.i]
    ELSE _create_smaller_chunks(tx_chunks[call.i], SmallerChunkSize)[call.j]

\* the results of the calls that returned a doc, merged one after the other
RECURSIVE MergeCalls(_, _)
MergeCalls(calls, merged) ==
    IF calls = <<>> THEN merged
    ELSE MergeCalls(Tail(calls),
                    IF Head(calls).ok
                    THEN _merge_chunk_results(merged, _analyze_chunk(nlp(CallText(Head(calls)))))
                    ELSE merged)

\* C12: for a text that is not blank and any pattern of tagger failures, analyze_text
\* returns with every chunk tried exactly once, a sub-chunk tried at most once and
\* only after its chunk failed, and a result that is the merge of exactly the chunks
\* and sub-chunks whose call succeeded, each merged once: a failed one adds nothing.
C12_FailuresAreSkipped ==
    (tx_pc = "done" /\ ~IsBlank(tx_text)) =>
        /\ \A i \in 1..Len(tx_chunks) : Cardinality(CallsOf(i, 0)) = 1
        /\ \A n \in 1..Len(tx_calls) :
              /\ Cardinality(CallsOf(tx_calls[n].i, tx_calls[n].j)) = 1
              /\ tx_calls[n].j > 0 => \E m \in 1..(n - 1) :
                    tx_calls[m].i = tx_calls[n].i /\ tx_calls[m].j = 0 /\ ~tx_calls[m].ok
        /\ tx_merged = MergeCalls(tx_calls, merged_result)
        /\ Len(tx_merged.sentence_structure.total_tokens)
              = Cardinality({n \in 1..Len(tx_calls) : tx_calls[n].ok})

\* C12 witness: a text of two chunks has been analysed, the tagger raised on the
\* first chunk and on its sub-chunk and returned a doc for the second chunk, which
\* alone is in the result
C12_Witness ==
    /\ tx_pc = "done"
    /\ Len(tx_chunks) = 2
    /\ tx_calls = <<NlpCall(1, 0, FALSE), NlpCall(1, 1, FALSE), NlpCall(2, 0, TRUE)>>
    /\ Len(tx_merged.sentence_structure.total_tokens) = 1

\* len(" ".join(chunk_words)) for a sub-chunk given by its lines
SmallerLen(smaller_chunk) ==
    SumSeq([n \in 1..Len(smaller_chunk) |-> LineLen(smaller_chunk[n])]) + Len(smaller_chunk) - 1

\* the n-th sub-chunk holds words of more than one paragraph of the chunk: an empty
\* line lies between two of its lines
SpansParagraphs(chunk, n) ==
    LET held == {j \in 1..Len(chunk) :
                   /\ WordCount(chunk[j]) > 0
                   /\ WordsBefore(chunk, j) \div SmallerChunkSize = n - 1}
    IN  \E a, b \in held : \E j \in (a + 1)..(b - 1) : chunk[j] = LineBlank

\* C20: every sub-chunk made for the retry of a failed chunk is at most 5000
\* characters long, unless it is (part of) a single paragraph.
C20_SmallerChunksBounded ==
    tx_pc = "smaller" =>
        \A n \in 1..Len(tx_smaller) :
            SmallerLen(tx_smaller[n]) <= SmallerChunkSize
            \/ ~SpansParagraphs(tx_chunks[tx_i], n)

\* C13: for a file whose references block is found, reference_format is the format
\* whose pattern matches the most lines of the block, and "nature" when no line
\* matches a pattern or when two or more formats share the highest count.
C13_MostLinesOrNature ==
    (cs_pc = "done" /\ extract_references_section(cs_suffix, cs_lines) # <<>>) =>
        LET ref_lines == extract_references_section(cs_suffix, cs_lines)
            count(format) == Cardinality({i \in 1..Len(ref_lines) : format \in FormatsOf(ref_lines[i])})
            formats == {"nature", "apa", "vancouver", "ieee"}
            best == {f \in formats : \A g \in formats : count(g) <= count(f)}
        IN  cs_style.reference_format
               = IF Cardinality(best) = 1 THEN CHOOSE f \in best : TRUE ELSE "nature"

\* pair of the i-th document
StylePair(styles, i) == <<styles[i].citation_type, styles[i].reference_format>>

\* in how many documents the pair of the i-th document occurs
PairCount(styles, i) ==
    Cardinality({j \in 1..Len(styles) : StylePair(styles, j) = StylePair(styles, i)})

\* C14: the merged style has the (citation_type, reference_format) pair that occurs
\* in the largest number of documents, the pair seen first among those that tie; so it
\* is the pair of some document.
C14_MostFrequentPairWins ==
    (st_pc = "done" /\ st_styles # <<>>) =>
        LET best == Least({i \in 1..Len(st_styles) :
                             \A j \in 1..Len(st_styles) :
                                 PairCount(st_styles, j) <= PairCount(st_styles, i)})
        IN  <<st_merged.citation_type, st_merged.reference_format>> = StylePair(st_styles, best)

\* C15: the report returned by analyze_papers carries the citation style detected
\* over the corpus: when every document of the corpus uses numbered citations, the
\* report has citation_style.citation_type = "numbered".
C15_ReportCarriesCitationStyle ==
    (/\ cp_pc = "done"
     /\ cp_papers # <<>>
     /\ \A i \in 1..Len(cp_papers) :
           analyze_citation_style(PaperSuffix(cp_papers[i]),
                                  PaperLines(cp_papers[i])).citation_type = "numbered")
    => cp_report.citation_style.citation_type = "numbered"

\* the values of a key in the section analyses that hold the key
ProducedValues(analyses, key) ==
    Pick([n \in 1..Len(analyses) |-> analyses[n].v[key]],
         {n \in 1..Len(analyses) : key \in analyses[n].v.keys})

\* round(sum(values) / len(values), 2), and 0 for no value
RoundedMean(values) == IF values = <<>> THEN FZero ELSE Round2(FMean(values))

\* C19: in the report, average_sentence_length and passive_voice_ratio are the means
\* (rounded to two places) over exactly the section analyses that produced a value:
\* an analysis without the value adds nothing to the sum and nothing to the count.
C19_MeansOverProducedValues ==
    cp_pc = "done" =>
        /\ cp_report.sentence_structure.average_sentence_length
              = RoundedMean(ProducedValues(cp_analyses, "avg_sentence_length"))
        /\ cp_report.sentence_structure.passive_voice_ratio
              = RoundedMean(ProducedValues(cp_analyses, "passive_voice_ratio"))

\* the counts of a vocabulary dict are natural numbers
NaturalCounts(d) == \A i \in 1..Len(d) : d[i].v \in Nat

\* a FeatureSet with counts in Nat and the passive ratio within [0, 1]
WellRanged(fs) ==
    /\ \A c \in Categories : NaturalCounts(fs.vocabulary[c])
    /\ fs.sentence_structure.sentence_count \in Nat
    /\ fs.sentence_structure.total_tokens \in Nat
    /\ fs.stylistic_features.token_count \in Nat
    /\ FLeq(FZero, fs.stylistic_features.passive_voice_ratio)
    /\ FLeq(fs.stylistic_features.passive_voice_ratio, FromInt(1))

\* C16: every FeatureSet that _analyze_chunk returns and every merged FeatureSet has
\* counts that are non-negative integers and a passive_voice_ratio within [0, 1].
C16_RatiosWithinUnit ==
    /\ \A i \in 1..Len(mg_results) : WellRanged(mg_results[i])
    /\ mg_merged # <<>> => WellRanged(mg_merged)

\* the results of the chunks that had at least one sentence
WithSentences(results) ==
    Pick(results, {i \in 1..Len(results) : results[i].sentence_structure.sentence_count >= 1})

\* C18: the merged avg_sentence_length and passive_voice_ratio of a section are the
\* means over the chunks that had at least one sentence; a chunk without sentences
\* and a chunk with the all-zero FeatureSet count neither in the sum nor in the
\* number of values.
C18_MeansOverChunksWithSentences ==
    (mg_merged # <<>> /\ WithSentences(mg_results) # <<>>) =>
        LET kept == WithSentences(mg_results)
        IN  /\ mg_merged.sentence_structure.avg_sentence_length
                  = FMean([i \in 1..Len(kept) |-> kept[i].sentence_structure.avg_sentence_length])
            /\ mg_merged.stylistic_features.passive_voice_ratio
                  = FMean([i \in 1..Len(kept) |-> kept[i].stylistic_features.passive_voice_ratio])

\* the sample sizes mentioned anywhere in the sections
MentionedSampleSizes(sections) ==
    UNION {{SampleMatches(sections[s].v)[i] : i \in 1..Len(SampleMatches(sections[s].v))} :
              s \in 1..Len(sections)}

\* C17: when the sample sizes mentioned in the sections are not all equal,
\* check_data_consistency returns at least one issue of type "numerical", also when
\* every section mentions one value and the values differ between sections.
C17_UnequalSampleSizesReported ==
    (dc_pc = "done" /\ Cardinality(MentionedSampleSizes(dc_sections)) > 1) =>
        \E i \in 1..Len(dc_issues) : dc_issues[i].type = "numerical"

\* C21: after the collapse loop no two consecutive retained starts have the same
\* name and lie less than 50 characters apart, and every match that is not retained
\* lies less than 50 characters after a retained match of the same name.
C21_CollapseKeepsEarliest ==
    sc_pc = "done" =>
        LET starts == section_starts(sc_lines)
            merged == merged_starts(starts, <<>>)
        IN  /\ \A i \in 1..(Len(merged) - 1) :
                  ~(/\ merged[i].name = merged[i + 1].name
                    /\ merged[i + 1].start - merged[i].start < CollapseWindow)
            /\ \A k \in 1..Len(starts) :
                  \E r \in 1..Len(merged) :
                     /\ merged[r].name = starts[k].name
                     /\ merged[r].start <= starts[k].start
                     /\ starts[k].start - merged[r].start < CollapseWindow

\* C21 witness: a match was dropped that begins after the retained match of its name
C21_Witness ==
    /\ sc_pc = "done"
    /\ LET starts == section_starts(sc_lines)
           merged == merged_starts(starts, <<>>)
       IN  \E k \in 1..Len(starts) :
              /\ \A r \in 1..Len(merged) : merged[r] # starts[k]
              /\ \E r \in 1..Len(merged) :
                    /\ merged[r].name = starts[k].name
                    /\ merged[r].start < starts[k].start

\* end_pos of the i-th retained start after the end patterns, and the stripped text
\* between the start and that end
CandidateEnd(lines, merged, i) ==
    TrimEnd(lines, merged[i].name, merged[i].start, NextStart(lines, merged, i))

CandidateText(lines, merged, i) ==
    StripRange(lines, merged[i].start, CandidateEnd(lines, merged, i))

\* C22: a candidate section is discarded exactly when its trimmed text is shorter
\* than 50 characters; with 50 characters or more its name is in the result.
C22_KeptFromFiftyCharacters ==
    sc_pc = "done" =>
        LET merged == merged_starts(section_starts(sc_lines), <<>>)
            long   == {i \in 1..Len(merged) :
                         CandidateText(sc_lines, merged, i).to
                            - CandidateText(sc_lines, merged, i).from >= MinSectionLen}
        IN  DictKeys(sc_sections) = {merged[i].name : i \in long}

\* the offset at which an end pattern of the section matches at line j, seen from a
\* section that starts at `start`
EndMatchAt(lines, start, j) == IF RunStart(lines, j) > start THEN RunStart(lines, j) ELSE start

\* C23: the initial end of the i-th retained start is the offset of the next retained
\* start (the end of the text for the last one); the trimmed end is the smallest
\* offset in [start, initial end) at which an end pattern of the section matches, and
\* the initial end when there is none; start <= trimmed end <= initial end.
C23_EndIsFirstEndPatternMatch ==
    sc_pc = "done" =>
        LET merged == merged_starts(section_starts(sc_lines), <<>>)
        IN  \A i \in 1..Len(merged) :
               LET start   == merged[i].start
                   initial == IF i < Len(merged) THEN merged[i + 1].start
                              ELSE TextLen(sc_lines)
                   hits    == {EndMatchAt(sc_lines, start, j) :
                                 j \in {n \in LinesWithin(sc_lines, start, initial) :
                                          EndMatches(merged[i].name, sc_lines[n]) # {}}}
                   trimmed == IF hits = {} THEN initial ELSE Least(hits)
               IN  /\ NextStart(sc_lines, merged, i) = initial
                   /\ CandidateEnd(sc_lines, merged, i) = trimmed
                   /\ start <= trimmed /\ trimmed <= initial

\* the line of the heading of the i-th retained start, and the lines of its body:
\* the non-blank lines after the heading and before the next retained start
HeadingLine(lines, merged, i) == Least(LinesWithin(lines, merged[i].start, TextLen(lines)))

BodyLines(lines, merged, i) ==
    {j \in LinesWithin(lines, merged[i].start, NextStart(lines, merged, i)) :
        j > HeadingLine(lines, merged, i)}

\* C29: a heading of any section, appendix included, that is followed by a body of
\* more than 50 characters before the next heading (no line of the body matching an
\* end pattern of the section) yields an entry of that section that holds the body:
\* the end patterns never cut the section at its own heading.
C29_HeadingWithBodyYieldsEntry ==
    sc_pc = "done" =>
        LET merged == merged_starts(section_starts(sc_lines), <<>>)
        IN  \A i \in 1..Len(merged) :
               LET body == BodyLines(sc_lines, merged, i)
                   from == LineStart(sc_lines, Least(body))
                   to   == LineStart(sc_lines, Greatest(body)) + Len(sc_lines[Greatest(body)])
               IN  (/\ body # {}
                    /\ \A j \in body : EndMatches(merged[i].name, sc_lines[j]) = {}
                    /\ to - from > MinSectionLen)
                   => \E n \in 1..Len(sc_sections) :
                         /\ sc_sections[n].k = merged[i].name
                         /\ sc_sections[n].v.from <= from
                         /\ to <= sc_sections[n].v.to

\* C30: when several retained starts of one section each have a text that passes the
\* length filter, the result holds for that section the text of the earliest one.
C30_EarliestMatchWins ==
    sc_pc = "done" =>
        LET merged == merged_starts(section_starts(sc_lines), <<>>)
        IN  \A n \in 1..Len(sc_sections) :
               LET passing == {i \in 1..Len(merged) :
                                 /\ merged[i].name = sc_sections[n].k
                                 /\ CandidateText(sc_lines, merged, i).to
                                       - CandidateText(sc_lines, merged, i).from > MinSectionLen}
               IN  sc_sections[n].v = CandidateText(sc_lines, merged, Least(passing))

\* the kinds for which the second loop of extract_text_from_pdf searches the
\* fallback pattern: the keys that sections holds after the first loop with a text
\* of fewer than 100 characters
FallbackConsulted(lines) ==
    LET strict == StrictLoop(lines, PdfKinds, InitialSections)
    IN  {strict[i].k : i \in {n \in 1..Len(strict) :
                                strict[n].v.to - strict[n].v.from < FallbackBelow}}

\* C24: for each of the six kinds the fallback pattern is searched exactly when the
\* strict pattern of the kind found nothing, and a kind for which both patterns find
\* nothing has no text in the output.
C24_FallbackExactlyAfterStrictMiss ==
    pd_pc = "done" =>
        LET lines == full_text(pd_suffix, pd_lines)
            consulted == FallbackConsulted(lines)
        IN  \A n \in 1..Len(PdfKinds) :
               /\ PdfKinds[n] \in consulted <=> StrictSearch(lines, PdfKinds[n]) = {}
               /\ (StrictSearch(lines, PdfKinds[n]) = {} /\ FallbackSearch(lines, PdfKinds[n]) = {})
                  => \A i \in 1..Len(pd_out.sections) :
                        pd_out.sections[i].k = PdfKinds[n] => pd_out.sections[i].v = EmptyText

\* the count of a term summed key-wise over the maps that the section analyses of
\* the run carry under a key
SummedCount(analyses, key, term) ==
    SumSeq([n \in 1..Len(analyses) |-> DictGet(Get(analyses[n].v, key, <<>>), term, 0)])

\* the terms that the section analyses of the run carry under a key
SummedTerms(analyses, key) ==
    UNION {DictKeys(Get(analyses[n].v, key, <<>>)) : n \in 1..Len(analyses)}

\* the occurrences of a hedging term summed over the analysed section texts
SummedHedging(analyses, term) ==
    SumSeq([n \in 1..Len(analyses) |-> TextCount(analyses[n].text, term)])

\* a frequency list of at most K terms, by non-increasing count, each term with its
\* summed count, and no term left out that has a larger summed count than a listed one
TopList(list, K, terms, count(_)) ==
    /\ Len(list) <= K
    /\ \A i \in 1..Len(list) : list[i].k \in terms /\ list[i].v = count(list[i].k)
    /\ \A i \in 1..(Len(list) - 1) : list[i].v >= list[i + 1].v
    /\ \A t \in terms \ DictKeys(list) : \A i \in 1..Len(list) : count(t) <= list[i].v

\* C25: in every report returned by analyze_papers the frequency lists hold at most
\* 50 nouns, 30 verbs, 40 adjectives, 40 adverbs, 40 prepositions and 20 hedging
\* terms, each list is ordered by non-increasing count, and no term left out of a
\* list has a larger summed count than a term included in it.
C25_TopListsAreTheMostFrequent ==
    cp_pc = "done" =>
        LET nouns(t)        == SummedCount(cp_analyses, "nouns", t)
            verbs(t)        == SummedCount(cp_analyses, "verbs", t)
            adjectives(t)   == SummedCount(cp_analyses, "adjectives", t)
            adverbs(t)      == SummedCount(cp_analyses, "adverbs", t)
            prepositions(t) == SummedCount(cp_analyses, "prepositions", t)
            hedging(t)      == SummedHedging(cp_analyses, t)
        IN  /\ TopList(cp_report.high_frequency_nouns, TopNouns,
                       SummedTerms(cp_analyses, "nouns"), nouns)
            /\ TopList(cp_report.high_frequency_verbs, TopVerbs,
                       SummedTerms(cp_analyses, "verbs"), verbs)
            /\ TopList(cp_report.high_frequency_adjectives, TopAdjectives,
                       SummedTerms(cp_analyses, "adjectives"), adjectives)
            /\ TopList(cp_report.high_frequency_adverbs, TopAdverbs,
                       SummedTerms(cp_analyses, "adverbs"), adverbs)
            /\ TopList(cp_report.prepositions, TopPrepositions,
                       SummedTerms(cp_analyses, "prepositions"), prepositions)
            /\ TopList(cp_report.hedging_terms, TopHedging,
                       {t \in HEDGING_TERMS : hedging(t) > 0}, hedging)

\* a report whose list of hedging terms is full, with a counted term left out of it
\* and two listed terms of different counts
C25_Witness ==
    /\ cp_pc = "done"
    /\ Len(cp_report.hedging_terms) = TopHedging
    /\ \E t \in HEDGING_TERMS \ DictKeys(cp_report.hedging_terms) :
           SummedHedging(cp_analyses, t) > 0
    /\ cp_report.hedging_terms[1].v > cp_report.hedging_terms[TopHedging].v
    /\ Len(cp_report.high_frequency_nouns) > 1

\* the section analyses in which at least one chunk was merged
Analysed == {n \in 1..Len(cp_analyses) : "avg_sentence_length" \in cp_analyses[n].v.keys}

\* C27: for every section kind for which at least one document of the corpus yielded
\* analysable text, the returned report has a tense_distribution entry for that kind,
\* and its transition_words and conjunctions hold the counts summed over the analysed
\* sections: the analysis of a section carries the tense, transition and conjunction
\* fields that the aggregation reads.
C27_TenseTransitionsConjunctionsReported ==
    cp_pc = "done" =>
        /\ \A n \in Analysed :
              /\ {"tense_distribution", "transition_counts", "conjunction_counts"}
                     \subseteq cp_analyses[n].v.keys
              /\ cp_analyses[n].k \in DictKeys(cp_report.tense_distribution)
        /\ \A c \in SummedTerms(cp_analyses, "transition_counts") :
              DictGet(cp_report.transition_words, c, <<>>)
                  = <<[k |-> c, v |-> SummedCount(cp_analyses, "transition_counts", c)]>>
        /\ \A c \in SummedTerms(cp_analyses, "conjunction_counts") :
              DictGet(cp_report.conjunctions, c, <<>>)
                  = <<[k |-> c, v |-> SummedCount(cp_analyses, "conjunction_counts", c)]>>

\* C26: no key stored in the noun, verb, adjective or adverb frequency map of a
\* chunk's FeatureSet is a stop word or is 2 characters long or shorter; this holds
\* for the verb map, which is keyed by lemma, as well as for the surface-keyed maps.
C26_NoStopWordNoShortKey ==
    \A i \in 1..Len(mg_results) : \A category \in Categories :
        \A word \in DictKeys(mg_results[i].vocabulary[category]) :
            word \notin stop_words /\ Len(word) > 2

\* the feature sets of the chunks and sub-chunks merged so far, in the order of the calls
MergedChunks ==
    LET ok == Pick(tx_calls, {n \in 1..Len(tx_calls) : tx_calls[n].ok})
    IN  Elements([n \in 1..Len(ok) |-> _analyze_chunk(nlp(CallText(ok[n])))])

\* C28: after analyze_text has merged the results of n >= 1 chunks through
\* _merge_chunk_results, the merged top-level passive_voice_ratio equals the
\* arithmetic mean of the passive_voice_ratio values of all n chunks, just as the
\* merged avg_sentence_length equals the mean of all n chunks' average sentence lengths.
C28_PassiveRatioIsMeanOfAllChunks ==
    (tx_pc \in {"chunk", "smaller", "done"} /\ MergedChunks # <<>>) =>
        LET chunks == MergedChunks
        IN  /\ "avg_sentence_length" \in tx_merged.keys
            /\ tx_merged.avg_sentence_length
                  = FMean([n \in 1..Len(chunks) |->
                              chunks[n].sentence_structure.avg_sentence_length])
            /\ "passive_voice_ratio" \in tx_merged.keys
            /\ tx_merged.passive_voice_ratio
                  = FMean([n \in 1..Len(chunks) |->
                              chunks[n].stylistic_features.passive_voice_ratio])

====
